---- MODULE Spec2Model ----
(***************************************************************************)
(* A model of numpyro's automatic guides (numpyro/infer/autoguide.py):     *)
(*   - the lazy prototype setup and invocation of the guide classes,       *)
(*   - the rejection samplers used by the RVRS guides,                     *)
(*   - posterior sampling of AutoSemiDAIS and AutoDelta,                   *)
(*   - the argument validation of the AutoDAIS constructor,                *)
(*   - median and quantiles, _create_plates, AutoNormal.__call__ and the   *)
(*     transform lists of the flow guides,                                 *)
(* of the control-flow helpers of numpyro/util.py and of the legacy        *)
(* Uniform distribution (numpyro/contrib/distributions/continuous.py).     *)
(* Each part is a state machine of its own with its own specification; the *)
(* variables of the other parts stay at their idle values.                 *)
(***************************************************************************)
EXTENDS Integers, Sequences, FiniteSets, TLC

VARIABLES
    \* ---- guide instance (AutoGuide and subclasses) ----
    cls,                \* the guide class of the instance
    model,              \* the model program the guide was constructed with
    prototype_trace,    \* self.prototype_trace (NoTrace is None)
    prototype_frames,   \* self._prototype_frames: plate name -> frame
    frame_full_sizes,   \* self._prototype_frame_full_sizes: plate name -> size
    attrs,              \* instance attributes assigned after construction
    event_dims,         \* keys of self._event_dims
    latent_dim,         \* self.latent_dim (meaningful when in attrs)
    setup_runs,         \* how many times _setup_prototype was entered
    calls,              \* how many times __call__ was entered
    outcome,            \* how the last __call__ ended
    first_outcome,      \* how the first __call__ ended
    ran_setup,          \* whether the last __call__ entered _setup_prototype
    \* ---- rejection samplers (rejection_sampler, _rs_impl) ----
    rs_kind,            \* "single": rejection_sampler, "batch": _rs_impl
    rs_S,               \* keys.shape[0] (1 for rejection_sampler)
    rs_buffer,          \* the carried proposals: val[-1] of _rs_impl, val of rejection_sampler
    rs_num_samples,     \* num_samples, counted up to MaxIters
    rs_pc,              \* "idle", "loop" (at cond_fn) or "returned"
    rs_prev,            \* the buffer and the candidates the last iteration merged
    rs_drawn,           \* accepted proposals drawn so far, counted up to rs_S
    \* ---- two runs of AutoSemiDAIS.sample_posterior ----
    sd_rng_key,         \* the rng_key both runs are given
    sd_params,          \* the params both runs are given
    sd_idx,             \* the substituted subsample indices of run 1 and run 2
    sd_run,             \* the progress and the values of run 1 and run 2
    \* ---- AutoDelta.sample_posterior ----
    dl_init_locs,       \* the keys of self._init_locs: the latent sites
    dl_deterministic,   \* the deterministic sites of the prototype trace
    dl_params,          \* params, keyed by parameter name
    dl_sample_shape,    \* sample_shape
    dl_result,          \* the returned dict (empty before the call)
    dl_pc,              \* "idle", "ready" or "returned"
    \* ---- AutoDAIS.__init__ ----
    da_args,            \* the keyword arguments of the constructor
    da_attrs,           \* the attributes set on the instance
    da_outcome,         \* "idle", "pending", "ok" or the error raised
    \* ---- numpyro/util.py: the control-flow switch ----
    DISABLE_CONTROL_FLOW_PRIM,  \* the module global _DISABLE_CONTROL_FLOW_PRIM
    cf_blocks,          \* the open with-blocks, innermost last: stored_flag of each
    cf_left,            \* the block left last: its stored_flag, the flag at entry, how it was left
    \* ---- one call of a function or method ----
    fn_name,            \* the function called ("idle" when this part is not used)
    fn_args,            \* its arguments
    fn_result,          \* what it returned or raised
    fn_pc               \* "idle", "ready" or "returned"

guideVars == <<cls, model, prototype_trace, prototype_frames, frame_full_sizes,
               attrs, event_dims, latent_dim, setup_runs, calls, outcome,
               first_outcome, ran_setup>>

rsVars == <<rs_kind, rs_S, rs_buffer, rs_num_samples, rs_pc, rs_prev, rs_drawn>>

sdVars == <<sd_rng_key, sd_params, sd_idx, sd_run>>

dlVars == <<dl_init_locs, dl_deterministic, dl_params, dl_sample_shape, dl_result, dl_pc>>

daVars == <<da_args, da_attrs, da_outcome>>

cfVars == <<DISABLE_CONTROL_FLOW_PRIM, cf_blocks, cf_left>>

fnVars == <<fn_name, fn_args, fn_result, fn_pc>>

utilVars == <<cfVars, fnVars>>

vars == <<guideVars, rsVars, sdVars, dlVars, daVars, utilVars>>

(***************************************************************************)
(* Bounds                                                                  *)
(***************************************************************************)
MaxSites == 2      \* sample statements in a model program
MaxCalls == 2      \* invocations of one guide instance
MaxS     == 3      \* keys handed to the batched rejection sampler
MaxIters == 3      \* loop iterations told apart by num_samples
SemiN    == 3      \* size N of the local plate
SemiL    == 2      \* subsample_size of the local plate
SemiK    == 2      \* K, the number of annealing steps

(***************************************************************************)
(* Model programs and the trace recorded by running them.                  *)
(***************************************************************************)
NoInt == <<>>                      \* subsample_size=None
IntOf(n) == <<n>>                  \* an integer subsample_size
IsInt(x) == Len(x) = 1

\* numpyro.plate(name, size, subsample_size, dim) invocations used by the programs
PlateA  == [name |-> "a", size |-> 2, sub |-> NoInt,    dim |-> -1]
PlateAs == [name |-> "a", size |-> 2, sub |-> IntOf(1), dim |-> -1]
PlateAd == [name |-> "a", size |-> 2, sub |-> NoInt,    dim |-> -2]
PlateBs == [name |-> "b", size |-> 3, sub |-> IntOf(2), dim |-> -2]

PlateStacks == { <<>>, <<PlateA>>, <<PlateAs>>, <<PlateAd>>, <<PlateBs>>,
                 <<PlateBs, PlateA>> }

\* numpyro.sample statements: observed, continuous latent, continuous latent
\* with an empty value (a zero in its shape), discrete latent
SampleKinds == { [is_observed |-> TRUE,  discrete |-> FALSE, size |-> 1],
                 [is_observed |-> FALSE, discrete |-> FALSE, size |-> 1],
                 [is_observed |-> FALSE, discrete |-> FALSE, size |-> 0],
                 [is_observed |-> FALSE, discrete |-> TRUE,  size |-> 1] }

Statements == { [kind |-> k, plates |-> p] : k \in SampleKinds, p \in PlateStacks }

Programs == UNION { [1..n -> Statements] : n \in 0..MaxSites }

\* the frame a plate pushes on the cond_indep_stack of the sites inside it
FrameOf(p) == [name |-> p.name, dim |-> p.dim,
               size |-> IF IsInt(p.sub) THEN p.sub[1] ELSE p.size]

PlateSite(p) == [name |-> p.name, type |-> "plate", is_observed |-> FALSE,
                 discrete |-> FALSE, size |-> 0, stack |-> <<>>,
                 args |-> <<IntOf(p.size), p.sub>>]

SampleSite(i, st) == [name |-> "s" \o ToString(i), type |-> "sample",
                      is_observed |-> st.kind.is_observed,
                      discrete |-> st.kind.discrete, size |-> st.kind.size,
                      stack |-> [k \in 1..Len(st.plates) |-> FrameOf(st.plates[k])],
                      args |-> <<>>]

\* trace[name] = site: a new key is appended, an existing key keeps its place
PutSite(tr, site) ==
    IF \E i \in 1..Len(tr) : tr[i].name = site.name
    THEN [i \in 1..Len(tr) |-> IF tr[i].name = site.name THEN site ELSE tr[i]]
    ELSE Append(tr, site)

RECURSIVE PutPlates(_, _, _)
PutPlates(tr, plates, k) ==
    IF k > Len(plates) THEN tr
    ELSE PutPlates(PutSite(tr, PlateSite(plates[k])), plates, k + 1)

RECURSIVE RunModel(_, _, _)
RunModel(prog, i, tr) ==
    IF i > Len(prog) THEN tr
    ELSE RunModel(prog, i + 1,
                  PutSite(PutPlates(tr, prog[i].plates, 1), SampleSite(i, prog[i])))

\* the prototype trace initialize_model returns for the program
TraceOf(prog) == RunModel(prog, 1, <<>>)


(***************************************************************************)
(* Guide instances.                                                        *)
(***************************************************************************)
GuideClasses == { "AutoNormal", "AutoDelta", "AutoDiagonalNormal", "AutoDAIS",
                  "AutoSurrogateLikelihoodDAIS", "AutoSemiDAIS", "AutoRVRS",
                  "AutoSemiRVRS" }

\* prototype_trace = None (told apart from every recorded trace by its type)
NoTrace == << [name |-> "None", type |-> "None", is_observed |-> FALSE,
               discrete |-> FALSE, size |-> 0, stack |-> <<>>, args |-> <<>>] >>
EmptyMap == [x \in {} |-> x]

NoErr           == "none"
ErrInconsistent == "AssertionError: has inconsistent dim or size"
ErrDiscrete     == "ValueError: cannot handle discrete sample site"
ErrNoLatent     == "RuntimeError: found no latent variables"
ErrLocalLatent  == "ValueError: does not support local latent variables"
ErrSubsampling  == "NotImplementedError: data subsampling"
ErrOnePlate     == "AssertionError: contains exactly 1 plate"
ErrNoLocal      == "RuntimeError: are no local variables"
ErrKey          == "KeyError"
ErrAttribute    == "AttributeError"

IsLatent(site) == site.type = "sample" /\ ~site.is_observed

LatentNames(tr) == { tr[i].name : i \in { j \in 1..Len(tr) : IsLatent(tr[j]) } }

\* isinstance(site["args"][1], int) and site["args"][0] > site["args"][1]
IsSubsamplePlate(site) ==
    /\ site.type = "plate"
    /\ IsInt(site.args[2])
    /\ site.args[1][1] > site.args[2][1]

\* a scan that compares the dim of the frames only
RECURSIVE ScanFramesDimOnly(_, _, _)
ScanFramesDimOnly(stack, k, frames) ==
    IF k > Len(stack) THEN [frames |-> frames, err |-> NoErr]
    ELSE LET frame == stack[k] IN
         IF frame.name \in DOMAIN frames
         THEN IF frame.dim = frames[frame.name].dim
              THEN ScanFramesDimOnly(stack, k + 1, frames)
              ELSE [frames |-> frames, err |-> ErrInconsistent]
         ELSE ScanFramesDimOnly(stack, k + 1, (frame.name :> frame) @@ frames)

\* the frames of one site, checked against and added to _prototype_frames
RECURSIVE ScanFrames(_, _, _)
ScanFrames(stack, k, frames) ==
    IF k > Len(stack) THEN [frames |-> frames, err |-> NoErr]
    ELSE LET frame == stack[k] IN
         IF frame.name \in DOMAIN frames
         THEN IF frame = frames[frame.name]
              THEN ScanFrames(stack, k + 1, frames)
              ELSE [frames |-> frames, err |-> ErrInconsistent]
         ELSE ScanFrames(stack, k + 1, (frame.name :> frame) @@ frames)

\* the loop of AutoGuide._setup_prototype over the prototype trace
RECURSIVE ScanSites(_, _, _, _)
ScanSites(tr, i, frames, full) ==
    IF i > Len(tr) THEN [frames |-> frames, full |-> full, err |-> NoErr]
    ELSE LET site == tr[i] IN
         IF site.type = "sample"
         THEN IF ~site.is_observed /\ site.discrete
              THEN [frames |-> frames, full |-> full, err |-> ErrDiscrete]
              ELSE LET r == ScanFrames(site.stack, 1, frames) IN
                   IF r.err # NoErr
                   THEN [frames |-> r.frames, full |-> full, err |-> r.err]
                   ELSE ScanSites(tr, i + 1, r.frames, full)
         ELSE IF site.type = "plate"
         THEN ScanSites(tr, i + 1, frames, (site.name :> site.args[1][1]) @@ full)
         ELSE ScanSites(tr, i + 1, frames, full)

\* assignments that leave prototype_trace as it was
BaseAssignNoTrace(g, tr, r) ==
    [g EXCEPT !.attrs  = g.attrs \cup {"_potential_fn_gen", "_potential_fn",
                                       "_postprocess_fn", "_init_locs",
                                       "_prototype_plate_sizes"},
              !.frames = r.frames,
              !.full   = r.full,
              !.err    = r.err]

\* the assignments of AutoGuide._setup_prototype, r being the outcome of its loop
BaseAssign(g, tr, r) ==
    [g EXCEPT !.trace  = tr,
              !.attrs  = g.attrs \cup {"_potential_fn_gen", "_potential_fn",
                                       "_postprocess_fn", "_init_locs",
                                       "_prototype_plate_sizes"},
              !.frames = r.frames,
              !.full   = r.full,
              !.err    = r.err]

\* AutoGuide._setup_prototype on the instance state g; tr is what
\* initialize_model returns.  The trace and the initial locations are
\* assigned before the frames are inspected.
AutoGuide_setup_prototype(g, tr) == BaseAssign(g, tr, ScanSites(tr, 1, EmptyMap, g.full))

\* the per-site loop of AutoNormal._setup_prototype / AutoDelta._setup_prototype:
\* every frame's full size is looked up in _prototype_frame_full_sizes
MeanFieldSites(b) ==
    IF b.err # NoErr THEN b
    ELSE IF \E i \in 1..Len(b.trace) :
               /\ IsLatent(b.trace[i])
               /\ \E k \in 1..Len(b.trace[i].stack) :
                     b.trace[i].stack[k].name \notin DOMAIN b.full
    THEN [b EXCEPT !.err = ErrKey]
    ELSE [b EXCEPT !.event_dims = b.event_dims \cup LatentNames(b.trace)]

AutoNormal_setup_prototype(g, tr) == MeanFieldSites(AutoGuide_setup_prototype(g, tr))

AutoDelta_setup_prototype(g, tr) == MeanFieldSites(AutoGuide_setup_prototype(g, tr))

RECURSIVE SumSizes(_, _)
SumSizes(tr, i) ==
    IF i > Len(tr) THEN 0
    ELSE (IF IsLatent(tr[i]) THEN tr[i].size ELSE 0) + SumSizes(tr, i + 1)

\* jnp.size(_ravel_dict(self._init_locs)[0])
LatentDimOf(tr) == SumSizes(tr, 1)

\* some unobserved sample site lies in a frame whose size is not the full size
HasLocalLatent(g) ==
    \E i \in 1..Len(g.trace) :
       /\ IsLatent(g.trace[i])
       /\ \E k \in 1..Len(g.trace[i].stack) :
             g.trace[i].stack[k].size # g.full[g.trace[i].stack[k].name]

\* the two checks in the opposite order
ContinuousChecksLocalFirst(c) ==
    IF HasLocalLatent(c) THEN [c EXCEPT !.err = ErrLocalLatent]
    ELSE IF c.latent_dim = 0 THEN [c EXCEPT !.err = ErrNoLatent]
    ELSE c

\* the checks of AutoContinuous._setup_prototype, c being the state with
\* _init_latent, _unpack_latent and latent_dim assigned
ContinuousChecks(c) ==
    IF c.latent_dim = 0 THEN [c EXCEPT !.err = ErrNoLatent]
    ELSE IF HasLocalLatent(c) THEN [c EXCEPT !.err = ErrLocalLatent]
    ELSE c

\* AutoContinuous._setup_prototype after super()._setup_prototype left b
ContinuousAfterBase(b) ==
    IF b.err # NoErr THEN b
    ELSE ContinuousChecks([b EXCEPT !.attrs = b.attrs \cup {"_init_latent",
                                        "_unpack_latent", "latent_dim"},
                                    !.latent_dim = LatentDimOf(b.trace)])

AutoContinuous_setup_prototype(g, tr) ==
    ContinuousAfterBase(AutoGuide_setup_prototype(g, tr))

HasSubsamplePlate(tr) == \E i \in 1..Len(tr) : IsSubsamplePlate(tr[i])

\* a setup that lets subsampled plates through
DAISNoSubsampleCheck(c) == c

\* AutoDAIS._setup_prototype after super()._setup_prototype left c
DAISAfterContinuous(c) ==
    IF c.err # NoErr THEN c
    ELSE IF HasSubsamplePlate(c.trace) THEN [c EXCEPT !.err = ErrSubsampling]
    ELSE c

AutoDAIS_setup_prototype(g, tr) ==
    DAISAfterContinuous(AutoContinuous_setup_prototype(g, tr))

\* AutoSurrogateLikelihoodDAIS._setup_prototype after AutoContinuous._setup_prototype
SurrogateAfterContinuous(c) ==
    IF c.err # NoErr THEN c
    ELSE [c EXCEPT !.attrs = c.attrs \cup {"_surrogate_potential_fn"}]

AutoSurrogateLikelihoodDAIS_setup_prototype(g, tr) ==
    SurrogateAfterContinuous(AutoContinuous_setup_prototype(g, tr))

\* AutoRVRS._setup_prototype after super()._setup_prototype left c
RVRSAfterContinuous(c) ==
    IF c.err # NoErr THEN c
    ELSE IF HasSubsamplePlate(c.trace) THEN [c EXCEPT !.err = ErrSubsampling]
    ELSE [c EXCEPT !.attrs = c.attrs \cup {"prototype_guide_trace"}]

AutoRVRS_setup_prototype(g, tr) ==
    RVRSAfterContinuous(AutoContinuous_setup_prototype(g, tr))

SubsamplePlates(tr) == { tr[i].name : i \in { j \in 1..Len(tr) : IsSubsamplePlate(tr[j]) } }

LocalVars(tr, plate_name) ==
    { tr[i].name : i \in { j \in 1..Len(tr) :
         /\ IsLatent(tr[j])
         /\ \E k \in 1..Len(tr[j].stack) : tr[j].stack[k].name = plate_name } }

\* the two checks in the opposite order
SemiSetupLocalFirst(b, more) ==
    IF b.err # NoErr THEN b
    ELSE IF \A n \in SubsamplePlates(b.trace) : LocalVars(b.trace, n) = {}
         THEN [b EXCEPT !.err = ErrNoLocal]
    ELSE IF Cardinality(SubsamplePlates(b.trace)) # 1 THEN [b EXCEPT !.err = ErrOnePlate]
    ELSE [b EXCEPT !.attrs = b.attrs \cup {"_pack_local_latent",
              "_unpack_local_latent", "_local_latent_dim", "_local_plate",
              "prototype_local_model_trace"} \cup more]

\* the plate and local-variable checks shared by the two semi guides
SemiSetup(b, more) ==
    IF b.err # NoErr THEN b
    ELSE IF Cardinality(SubsamplePlates(b.trace)) # 1 THEN [b EXCEPT !.err = ErrOnePlate]
    ELSE IF \A n \in SubsamplePlates(b.trace) : LocalVars(b.trace, n) = {}
         THEN [b EXCEPT !.err = ErrNoLocal]
    ELSE [b EXCEPT !.attrs = b.attrs \cup {"_pack_local_latent",
              "_unpack_local_latent", "_local_latent_dim", "_local_plate",
              "prototype_local_model_trace"} \cup more]

AutoSemiDAIS_setup_prototype(g, tr) ==
    SemiSetup(AutoGuide_setup_prototype(g, tr), {})

AutoSemiRVRS_setup_prototype(g, tr) ==
    SemiSetup(AutoGuide_setup_prototype(g, tr), {"prototype_local_guide_trace"})

\* self._setup_prototype(*args, **kwargs), dispatched on the class
SetupPrototype(c, g, tr) ==
    CASE c = "AutoNormal"                  -> AutoNormal_setup_prototype(g, tr)
      [] c = "AutoDelta"                   -> AutoDelta_setup_prototype(g, tr)
      [] c = "AutoDiagonalNormal"          -> AutoContinuous_setup_prototype(g, tr)
      [] c = "AutoDAIS"                    -> AutoDAIS_setup_prototype(g, tr)
      [] c = "AutoSurrogateLikelihoodDAIS" -> AutoSurrogateLikelihoodDAIS_setup_prototype(g, tr)
      [] c = "AutoSemiDAIS"                -> AutoSemiDAIS_setup_prototype(g, tr)
      [] c = "AutoRVRS"                    -> AutoRVRS_setup_prototype(g, tr)
      [] c = "AutoSemiRVRS"                -> AutoSemiRVRS_setup_prototype(g, tr)


\* the attributes the body of __call__ reads after the setup guard
BodyReads(c) ==
    CASE c = "AutoNormal"                  -> {"_init_locs"}
      [] c = "AutoDelta"                   -> {"_init_locs"}
      [] c = "AutoDiagonalNormal"          -> {"_init_latent", "latent_dim", "_unpack_latent"}
      [] c = "AutoDAIS"                    -> {"_init_latent", "latent_dim", "_unpack_latent",
                                               "_potential_fn"}
      [] c = "AutoSurrogateLikelihoodDAIS" -> {"_init_latent", "latent_dim", "_unpack_latent",
                                               "_surrogate_potential_fn"}
      [] c = "AutoSemiDAIS"                -> {"prototype_local_model_trace", "_local_plate",
                                               "_local_latent_dim", "_unpack_local_latent"}
      [] c = "AutoRVRS"                    -> {"prototype_guide_trace", "latent_dim",
                                               "_unpack_latent", "_potential_fn"}
      [] c = "AutoSemiRVRS"                -> {"_local_plate", "prototype_local_guide_trace",
                                               "prototype_local_model_trace",
                                               "_unpack_local_latent"}

\* the loop of AutoNormal.__call__ / AutoDelta.__call__, h being the state
\* after _create_plates
MeanFieldBody(h) ==
    IF ~(LatentNames(h.trace) \subseteq h.event_dims)
    THEN [h EXCEPT !.err = ErrKey]                \* self._event_dims[name]
    ELSE h

\* the part of __call__ after the setup guard
Body(c, g) ==
    IF g.err # NoErr THEN g
    ELSE IF c \in {"AutoNormal", "AutoDelta"}
    THEN MeanFieldBody([g EXCEPT !.attrs = g.attrs \cup {"plates"}])
    ELSE IF ~(BodyReads(c) \subseteq g.attrs)
         THEN [g EXCEPT !.err = ErrAttribute]
         ELSE g

GuideState == [trace |-> prototype_trace, frames |-> prototype_frames,
               full |-> frame_full_sizes, attrs |-> attrs,
               event_dims |-> event_dims, latent_dim |-> latent_dim,
               runs |-> setup_runs, ran |-> FALSE, err |-> NoErr]

\* the setup guard of __call__: if self.prototype_trace is None: ...
SetupGuard(c, g, prog) ==
    IF g.trace = NoTrace
    THEN SetupPrototype(c, [g EXCEPT !.runs = g.runs + 1, !.ran = TRUE], TraceOf(prog))
    ELSE g

\* what one guide(*args, **kwargs) leaves behind
AfterCall(c, g, prog) == Body(c, SetupGuard(c, g, prog))

OutcomeOf(g) == IF g.err = NoErr THEN "ok" ELSE g.err

\* the instance after a call that left g
StoreGuide(g) ==
    /\ prototype_trace'  = g.trace
    /\ prototype_frames' = g.frames
    /\ frame_full_sizes' = g.full
    /\ attrs'            = g.attrs
    /\ event_dims'       = g.event_dims
    /\ latent_dim'       = g.latent_dim
    /\ outcome'          = OutcomeOf(g)
    /\ first_outcome'    = IF calls = 0 THEN OutcomeOf(g) ELSE first_outcome
    /\ setup_runs'       = g.runs
    /\ ran_setup'        = g.ran

\* no guide instance in play
GuideIdle ==
    /\ cls = "none"
    /\ model = <<>>
    /\ prototype_trace = NoTrace
    /\ prototype_frames = EmptyMap
    /\ frame_full_sizes = EmptyMap
    /\ attrs = {}
    /\ event_dims = {}
    /\ latent_dim = 0
    /\ setup_runs = 0
    /\ calls = 0
    /\ outcome = "not called"
    /\ first_outcome = "not called"
    /\ ran_setup = FALSE

GuideInit ==
    /\ cls \in GuideClasses
    /\ model \in Programs
    /\ prototype_trace = NoTrace
    /\ prototype_frames = EmptyMap
    /\ frame_full_sizes = EmptyMap
    /\ attrs = {}
    /\ event_dims = {}
    /\ latent_dim = 0
    /\ setup_runs = 0
    /\ calls = 0
    /\ outcome = "not called"
    /\ first_outcome = "not called"
    /\ ran_setup = FALSE

\* guide(*args, **kwargs)
Call ==
    /\ calls < MaxCalls
    /\ StoreGuide(AfterCall(cls, GuideState, model))
    /\ calls'      = calls + 1
    /\ UNCHANGED <<cls, model>>
    /\ UNCHANGED <<rsVars, sdVars, dlVars, daVars, utilVars>>

(***************************************************************************)
(* AutoDelta.sample_posterior.  An array is its shape and its values in    *)
(* row-major order.                                                        *)
(***************************************************************************)
RECURSIVE Prod(_)
Prod(shape) == IF shape = <<>> THEN 1 ELSE Head(shape) * Prod(Tail(shape))

DeltaShapes == { <<>>, <<1>>, <<2>>, <<1, 2>> }

SampleShapes == { <<>>, <<1>>, <<2>>, <<2, 3>> }

DeltaValues == {0, 2}

DeltaArrays ==
    UNION { { [shape |-> sh, data |-> d] : d \in [1..Prod(sh) -> DeltaValues] } :
            sh \in DeltaShapes }

\* "{}_{}_loc".format(k, self.prefix)
LocName(k, prefix) == k \o "_" \o prefix \o "_loc"

\* an expansion that puts the sample axes last
BroadcastTrailing(v, s) ==
    [shape |-> v.shape \o s,
     data  |-> [j \in 1..(Prod(s) * Len(v.data)) |-> v.data[((j - 1) \div Prod(s)) + 1]]]

\* jnp.broadcast_to(v, sample_shape + jnp.shape(v))
BroadcastTo(v, s) ==
    [shape |-> s \o v.shape,
     data  |-> [j \in 1..(Prod(s) * Len(v.data)) |-> v.data[((j - 1) % Len(v.data)) + 1]]]

\* x ** 2, elementwise
Square(v) == [shape |-> v.shape, data |-> [j \in 1..Len(v.data) |-> v.data[j] * v.data[j]]]

\* latent_samples of sample_posterior
LatentSamples(init_locs, params, s) ==
    [k \in init_locs |-> BroadcastTo(params[LocName(k, "auto")], s)]

\* Predictive(model, posterior_samples=latent_samples, return_sites=
\* deterministic_vars, batch_ndims=len(sample_shape)): the model run on every
\* sample; its deterministic sites are numpyro.deterministic("x2", x ** 2)
DeterministicSamples(latent_samples, deterministic_vars) ==
    [d \in deterministic_vars |-> Square(latent_samples["x"])]

\* AutoDelta.sample_posterior(rng_key, params, sample_shape=s)
Delta_sample_posterior(init_locs, deterministic_vars, params, s) ==
    IF deterministic_vars = {}
    THEN LatentSamples(init_locs, params, s)
    ELSE DeterministicSamples(LatentSamples(init_locs, params, s), deterministic_vars)
            @@ LatentSamples(init_locs, params, s)

DLIdle ==
    /\ dl_init_locs = {}
    /\ dl_deterministic = {}
    /\ dl_params = EmptyMap
    /\ dl_sample_shape = <<>>
    /\ dl_result = EmptyMap
    /\ dl_pc = "idle"

DLInit ==
    /\ dl_init_locs \in { {"x"}, {"x", "y"} }
    /\ dl_deterministic \in { {}, {"x2"} }
    /\ dl_params \in [ { LocName(k, "auto") : k \in dl_init_locs } -> DeltaArrays ]
    /\ dl_sample_shape \in SampleShapes
    /\ dl_result = EmptyMap
    /\ dl_pc = "ready"

SamplePosterior ==
    /\ dl_pc = "ready"
    /\ dl_result' = Delta_sample_posterior(dl_init_locs, dl_deterministic,
                                           dl_params, dl_sample_shape)
    /\ dl_pc' = "returned"
    /\ UNCHANGED <<dl_init_locs, dl_deterministic, dl_params, dl_sample_shape>>
    /\ UNCHANGED <<guideVars, rsVars, sdVars, daVars, utilVars>>

NextDelta == SamplePosterior

(***************************************************************************)
(* AutoDAIS.__init__.  A float is NaN or a number of hundredths.           *)
(***************************************************************************)
Fl(v) == [nan |-> FALSE, v |-> v]

NaN == [nan |-> TRUE, v |-> 0]

\* a <= b and a >= b on floats: False as soon as one side is NaN
FloatLe(a, b) == ~a.nan /\ ~b.nan /\ a.v <= b.v
FloatGe(a, b) == ~a.nan /\ ~b.nan /\ a.v >= b.v

DAISArgs ==
    [K          : {0, 1, 4},
     base_dist  : {"diagonal", "cholesky", "lowrank"},
     eta_init   : {Fl(0), Fl(1), Fl(10), Fl(20), NaN},
     eta_max    : {Fl(-10), Fl(0), Fl(10), NaN},
     gamma_init : {Fl(0), Fl(90), Fl(100), NaN},
     init_scale : {Fl(0), Fl(10), NaN}]

ErrValue == "ValueError"

\* the checks of AutoDAIS.__init__, in their order
DAISCheck(a) ==
    IF a.K < 1 THEN ErrValue
    ELSE IF a.base_dist \notin {"diagonal", "cholesky"} THEN ErrValue
    ELSE IF FloatLe(a.eta_init, Fl(0)) \/ FloatGe(a.eta_init, a.eta_max) THEN ErrValue
    ELSE IF FloatLe(a.eta_max, Fl(0)) THEN ErrValue
    ELSE IF FloatLe(a.gamma_init, Fl(0)) \/ FloatGe(a.gamma_init, Fl(100)) THEN ErrValue
    ELSE IF FloatLe(a.init_scale, Fl(0)) THEN ErrValue
    ELSE "ok"

\* the attributes AutoDAIS.__init__ and the constructors above it assign
DAISAttributes == {"eta_init", "eta_max", "gamma_init", "K", "base_dist", "_init_scale",
                   "model", "prefix", "init_loc_fn", "create_plates", "prototype_trace",
                   "_prototype_frames", "_prototype_frame_full_sizes"}

AutoDAIS_init(a) ==
    [outcome |-> DAISCheck(a),
     attrs   |-> IF DAISCheck(a) = "ok" THEN DAISAttributes ELSE {}]

DAIdle ==
    /\ da_args = [K |-> 4]
    /\ da_attrs = {}
    /\ da_outcome = "idle"

DAInit ==
    /\ da_args \in DAISArgs
    /\ da_attrs = {}
    /\ da_outcome = "pending"

\* AutoDAIS(model, K=..., base_dist=..., ...)
Construct ==
    /\ da_outcome = "pending"
    /\ da_outcome' = AutoDAIS_init(da_args).outcome
    /\ da_attrs' = AutoDAIS_init(da_args).attrs
    /\ UNCHANGED da_args
    /\ UNCHANGED <<guideVars, rsVars, sdVars, dlVars, utilVars>>

NextDAISInit == Construct

(***************************************************************************)
(* AutoSemiDAIS.sample_posterior, run twice with the same rng_key and       *)
(* params under two substituted subsample index vectors.  Real numbers are  *)
(* stood in for by integers modulo 7: what is modelled is which inputs      *)
(* every row of the local latent is computed from.                          *)
(***************************************************************************)
Wrap(x) == x % 7

\* the per-index parameters of the guide, each of leading size N
SemiParams ==
    { [eta0 |-> [n \in 1..SemiN |-> 1], eta_coeff |-> [n \in 1..SemiN |-> 0],
       gamma |-> [n \in 1..SemiN |-> 1], beta_increments |-> [n \in 1..SemiN |-> 1],
       mass_matrix |-> [n \in 1..SemiN |-> 1], z_0_loc |-> [n \in 1..SemiN |-> 0],
       z_0_scale |-> [n \in 1..SemiN |-> 1], theta_loc |-> 0],
      [eta0 |-> [n \in 1..SemiN |-> 1 + (n % 2)], eta_coeff |-> [n \in 1..SemiN |-> n],
       gamma |-> [n \in 1..SemiN |-> n], beta_increments |-> [n \in 1..SemiN |-> n],
       mass_matrix |-> [n \in 1..SemiN |-> n], z_0_loc |-> [n \in 1..SemiN |-> n],
       z_0_scale |-> [n \in 1..SemiN |-> 1 + n], theta_loc |-> 1],
      [eta0 |-> [n \in 1..SemiN |-> n], eta_coeff |-> [n \in 1..SemiN |-> 1],
       gamma |-> [n \in 1..SemiN |-> 2], beta_increments |-> [n \in 1..SemiN |-> 1 + (n % 2)],
       mass_matrix |-> [n \in 1..SemiN |-> 2], z_0_loc |-> [n \in 1..SemiN |-> 2 * n],
       z_0_scale |-> [n \in 1..SemiN |-> 1], theta_loc |-> 3] }

SemiKeys == {0, 1}

\* what a sample statement draws for row p, draw k of the named site under
\* handlers.seed(rng_seed=key): fixed by the key, the site and the place
Noise(key, site, p, k) ==
    Wrap(3 * key + (IF site = "z_0" THEN 1 ELSE 2) + 2 * p + 5 * k + key * p)

\* global_latents = self.global_guide(*args, **kwargs)
GlobalLatent(key, par) == Wrap(par.theta_loc + 2 * key + 1)

\* betas = cumsum(beta_increments) / betas[..., -1:] for index i, step k
\* counted from 0 (numerator and denominator kept apart)
BetaNum(par, i, k) == (k + 1) * par.beta_increments[i]
BetaDen(par, i) == SemiK * par.beta_increments[i]

\* z_0 = numpyro.sample(z_0, Normal(z_0_loc, z_0_scale)) for the row at index i
Z0(key, par, i, p) == Wrap(par.z_0_loc[i] + par.z_0_scale[i] * Noise(key, "z_0", p, 0))

\* eps[p, :, k] drawn from Normal(0, mass_matrix[..., None])
Eps(key, par, i, p, k) == Wrap(par.mass_matrix[i] * Noise(key, "momentum", p, k))

\* grad(base_z_dist_log_prob)(z_half), row of index i
GradBase(par, i, zh) == (par.z_0_loc[i] - zh) * par.z_0_scale[i]

\* grad(local_log_density)(z_half), row of index i: the local model sees the
\* global latents and the data of index i
GradLocal(theta, i, zh) == theta + i - zh

\* one pass of scan_body for the row at index i
RowStep(par, theta, i, z, v, eps, k) ==
    LET eta    == par.eta0[i] * BetaDen(par, i) + par.eta_coeff[i] * BetaNum(par, i, k)
        z_half == z + v * eta * par.mass_matrix[i]
        q_grad == (BetaDen(par, i) - BetaNum(par, i, k)) * GradBase(par, i, z_half)
        p_grad == BetaNum(par, i, k) * GradLocal(theta, i, z_half)
        v_hat  == v + eta * (q_grad + p_grad)
    IN  [z |-> Wrap(z_half + v_hat * eta * par.mass_matrix[i]),
         v |-> Wrap(par.gamma[i] * v_hat + (1 + par.gamma[i]) * eps)]

\* a pass in which every row reads the index of the last position
ScanBodyCoupled(key, par, theta, idx, rows, k) ==
    [p \in 1..Len(idx) |->
        RowStep(par, theta, idx[Len(idx)], rows[p].z, rows[p].v,
                Eps(key, par, idx[p], p, k), k)]

\* scan_body over all rows of the subsample, step k
ScanBody(key, par, theta, idx, rows, k) ==
    [p \in 1..Len(idx) |->
        RowStep(par, theta, idx[p], rows[p].z, rows[p].v,
                Eps(key, par, idx[p], p, k), k)]

\* the carry the scan starts from: z_0 and v_0 = eps[:, :, -1]
ScanInit(key, par, idx) ==
    [p \in 1..Len(idx) |->
        [z |-> Z0(key, par, idx[p], p), v |-> Eps(key, par, idx[p], p, SemiK - 1)]]

\* value = biject_to(site["fn"].support)(unconstrained_value), a positive support
Constrain(x) == 2 * x + 1

NotStarted == [pc |-> "call", k |-> 0, theta |-> 0, rows |-> <<>>, tau |-> <<>>]

SDIdle ==
    /\ sd_rng_key = 0
    /\ sd_params = [theta_loc |-> 0]
    /\ sd_idx = <<>>
    /\ sd_run = <<>>

SDInit ==
    /\ sd_rng_key \in SemiKeys
    /\ sd_params \in SemiParams
    /\ sd_idx \in [1..2 -> [1..SemiL -> 1..SemiN]]
    /\ sd_run = <<NotStarted, NotStarted>>

\* _sample_latent up to the scan: the global latents, z_0 and the momenta
SemiStart(r) ==
    /\ sd_run[r].pc = "call"
    /\ sd_run' = [sd_run EXCEPT ![r] =
                     [pc |-> "scan", k |-> 0,
                      theta |-> GlobalLatent(sd_rng_key, sd_params),
                      rows |-> ScanInit(sd_rng_key, sd_params, sd_idx[r]),
                      tau |-> <<>>]]
    /\ UNCHANGED <<sd_rng_key, sd_params, sd_idx>>
    /\ UNCHANGED <<guideVars, rsVars, dlVars, daVars, utilVars>>

\* one step of jax.lax.scan(scan_body, ...)
SemiScanStep(r) ==
    /\ sd_run[r].pc = "scan"
    /\ sd_run[r].k < SemiK
    /\ sd_run' = [sd_run EXCEPT
                     ![r].rows = ScanBody(sd_rng_key, sd_params, sd_run[r].theta,
                                          sd_idx[r], sd_run[r].rows, sd_run[r].k),
                     ![r].k = sd_run[r].k + 1]
    /\ UNCHANGED <<sd_rng_key, sd_params, sd_idx>>
    /\ UNCHANGED <<guideVars, rsVars, dlVars, daVars, utilVars>>

\* _single_sample of sample_posterior: the local latent unpacked and constrained
SemiReturn(r) ==
    /\ sd_run[r].pc = "scan"
    /\ sd_run[r].k = SemiK
    /\ sd_run' = [sd_run EXCEPT
                     ![r].pc = "done",
                     ![r].tau = [p \in 1..Len(sd_run[r].rows) |->
                                    Constrain(sd_run[r].rows[p].z)]]
    /\ UNCHANGED <<sd_rng_key, sd_params, sd_idx>>
    /\ UNCHANGED <<guideVars, rsVars, dlVars, daVars, utilVars>>

NextSemi == \E r \in 1..2 : SemiStart(r) \/ SemiScanStep(r) \/ SemiReturn(r)

(***************************************************************************)
(* The rejection samplers.                                                 *)
(***************************************************************************)
Min(a, b) == IF a < b THEN a ELSE b

\* a proposal: whether log_u < accept_log_prob held for it, the iteration
\* that drew it (0: the zero-filled initial value) and its lane
Proposal(a, n, k) == [acc |-> a, iter |-> n, lane |-> k]

AcceptedCount(buf) == Cardinality({ i \in 1..Len(buf) : buf[i].acc })

IdxSeq(n) == [i \in 1..n |-> i]

\* jnp.argsort of a boolean vector (stable): the indices of the False entries
\* in order, then those of the True entries in order
ArgSort(flags) ==
    LET IsF(i) == ~flags[i]
        IsT(i) == flags[i]
    IN  SelectSeq(IdxSeq(Len(flags)), IsF) \o SelectSeq(IdxSeq(Len(flags)), IsT)

\* idx[:S]
FirstS(idx, S) == SubSeq(idx, 1, S)

\* idx[-S:]
LastS(idx, S) == SubSeq(idx, Len(idx) - S + 1, Len(idx))

\* x[maybe_accept_indices] for every leaf x of buffer_extend
TakeRows(ext, idx) == [k \in 1..Len(idx) |-> ext[idx[k]]]

FlagsOf(ext) == [i \in 1..Len(ext) |-> ext[i].acc]

\* a merge that puts the candidates behind the buffered rows
MergeBufferCandidatesLast(cand, buf, S) ==
    TakeRows(buf \o cand, LastS(ArgSort(FlagsOf(buf \o cand)), S))

\* batch_body_fn: buffer_extend = concatenate([candidate, buffer]) and the
\* rows argsort(is_accepted)[-S:] of it
MergeBuffer(cand, buf, S) == TakeRows(cand \o buf, LastS(ArgSort(FlagsOf(cand \o buf)), S))

\* a loop that stops one accepted proposal early
CondFnEarly(buf, S) == AcceptedCount(buf) < S - 1

\* cond_fn of _rs_impl (is_accepted.sum() < S); for rejection_sampler, with
\* S = 1 and the one carried flag, the same test is ~val[-1]
CondFn(buf, S) == AcceptedCount(buf) < S

\* the candidates vmap(body_fn) draws in iteration n with acceptance flags a
Candidates(a, n) == [k \in 1..Len(a) |-> Proposal(a[k], n, k)]

NextCount(n) == IF n < MaxIters THEN n + 1 ELSE n

RSIdle ==
    /\ rs_kind = "none"
    /\ rs_S = 0
    /\ rs_buffer = <<>>
    /\ rs_num_samples = 0
    /\ rs_pc = "idle"
    /\ rs_prev = [buffer |-> <<>>, cand |-> <<>>]
    /\ rs_drawn = 0

\* init_val of _rs_impl / rejection_sampler
RSInit ==
    /\ rs_kind \in {"single", "batch"}
    /\ rs_S \in IF rs_kind = "single" THEN {1} ELSE 1..MaxS
    /\ rs_buffer = [k \in 1..rs_S |-> Proposal(FALSE, 0, k)]
    /\ rs_num_samples = 0
    /\ rs_pc = "loop"
    /\ rs_prev = [buffer |-> <<>>, cand |-> <<>>]
    /\ rs_drawn = 0

\* one pass of batch_body_fn with the acceptance flags a of its candidates
BatchBody(a) ==
    /\ rs_kind = "batch"
    /\ rs_pc = "loop"
    /\ CondFn(rs_buffer, rs_S)
    /\ rs_buffer' = MergeBuffer(Candidates(a, NextCount(rs_num_samples)), rs_buffer, rs_S)
    /\ rs_prev' = [buffer |-> rs_buffer,
                   cand |-> Candidates(a, NextCount(rs_num_samples))]
    /\ rs_num_samples' = NextCount(rs_num_samples)
    /\ rs_drawn' = Min(rs_S, rs_drawn + Cardinality({ k \in 1..rs_S : a[k] }))
    /\ UNCHANGED <<rs_kind, rs_S, rs_pc>>
    /\ UNCHANGED <<guideVars, sdVars, dlVars, daVars, utilVars>>

\* one pass of body_fn of rejection_sampler: the drawn z replaces the carried one
SingleBody(a) ==
    /\ rs_kind = "single"
    /\ rs_pc = "loop"
    /\ CondFn(rs_buffer, rs_S)
    /\ rs_buffer' = Candidates(<<a>>, NextCount(rs_num_samples))
    /\ rs_prev' = [buffer |-> rs_buffer,
                   cand |-> Candidates(<<a>>, NextCount(rs_num_samples))]
    /\ rs_num_samples' = NextCount(rs_num_samples)
    /\ rs_drawn' = Min(rs_S, rs_drawn + (IF a THEN 1 ELSE 0))
    /\ UNCHANGED <<rs_kind, rs_S, rs_pc>>
    /\ UNCHANGED <<guideVars, sdVars, dlVars, daVars, utilVars>>

BatchRejects == BatchBody([k \in 1..rs_S |-> FALSE])

BatchAccepts == \E a \in [1..rs_S -> BOOLEAN] : (\E k \in 1..rs_S : a[k]) /\ BatchBody(a)

SingleRejects == SingleBody(FALSE)

SingleAccepts == SingleBody(TRUE)

\* jax.lax.while_loop leaves the loop when cond_fn is false
LoopExit ==
    /\ rs_pc = "loop"
    /\ ~CondFn(rs_buffer, rs_S)
    /\ rs_pc' = "returned"
    /\ UNCHANGED <<rs_kind, rs_S, rs_buffer, rs_num_samples, rs_prev, rs_drawn>>
    /\ UNCHANGED <<guideVars, sdVars, dlVars, daVars, utilVars>>

NextRS == BatchRejects \/ BatchAccepts \/ SingleRejects \/ SingleAccepts \/ LoopExit

(***************************************************************************)
(* One call of a function or method: the idle values                       *)
(***************************************************************************)
FNIdle ==
    /\ fn_name = "idle"
    /\ fn_args = EmptyMap
    /\ fn_result = EmptyMap
    /\ fn_pc = "idle"

\* numpyro/util.py as imported: the flag is False and no block is open
NoBlock == [stored_flag |-> FALSE, entry |-> FALSE, how |-> "none", after |-> FALSE]

CFIdle ==
    /\ DISABLE_CONTROL_FLOW_PRIM = FALSE
    /\ cf_blocks = <<>>
    /\ cf_left = NoBlock

UtilIdle == CFIdle /\ FNIdle

(***************************************************************************)
(* median and quantiles of the guide classes                               *)
(***************************************************************************)
\* the largest value of a location parameter
MaxLoc == 1

\* the base class named in each class statement
Base(c) ==
    CASE c \in { "AutoNormal", "AutoDelta", "AutoContinuous", "AutoSemiDAIS",
                 "AutoSemiRVRS" } -> "AutoGuide"
      [] c = "AutoSurrogateLikelihoodDAIS" -> "AutoDAIS"
      [] OTHER -> "AutoContinuous"

\* a variant in which AutoContinuous implements both estimates
DefinesInContinuous(c, m) ==
    c \in { "AutoGuide", "AutoNormal", "AutoContinuous", "AutoDiagonalNormal",
            "AutoMultivariateNormal", "AutoLowRankMultivariateNormal",
            "AutoLaplaceApproximation" }
    \/ (c = "AutoDelta" /\ m = "median")

\* whether the body of class c has a def of method m
Defines(c, m) ==
    c \in { "AutoGuide", "AutoNormal", "AutoDiagonalNormal",
            "AutoMultivariateNormal", "AutoLowRankMultivariateNormal",
            "AutoLaplaceApproximation" }
    \/ (c = "AutoDelta" /\ m = "median")

\* attribute lookup along the base classes
RECURSIVE Resolve(_, _)
Resolve(c, m) == IF Defines(c, m) THEN c ELSE Resolve(Base(c), m)

ErrNotImplemented == "NotImplementedError"

\* AutoGuide.median and AutoGuide.quantiles: raise NotImplementedError
AutoGuide_estimate(a) ==
    [raised |-> ErrNotImplemented, returned |-> FALSE, value |-> EmptyMap]

\* AutoDelta.median: the location parameter of every key of _init_locs
AutoDelta_median(a) ==
    [raised |-> NoErr, returned |-> TRUE,
     value |-> [k \in a.init_locs |-> a.params[LocName(k, a.prefix)]]]

\* AutoNormal.median: the constrained location parameters (the estimates of
\* the other normal guides return likewise; only that they return is kept)
AutoNormal_median(a) ==
    [raised |-> NoErr, returned |-> TRUE,
     value |-> [k \in a.init_locs |-> Constrain(a.params[LocName(k, a.prefix)])]]

\* guide.median(params) and guide.quantiles(params, quantiles)
Estimate(a, m) ==
    CASE Resolve(a.cls, m) = "AutoGuide" -> AutoGuide_estimate(a)
      [] Resolve(a.cls, m) = "AutoDelta" -> AutoDelta_median(a)
      [] OTHER -> AutoNormal_median(a)

\* the guide classes whose estimates resolve to AutoGuide or AutoDelta
EstimateClasses == { "AutoIAFNormal", "AutoBNAFNormal", "AutoDAIS",
                     "AutoSurrogateLikelihoodDAIS", "AutoSemiDAIS", "AutoRVRS",
                     "AutoSemiRVRS", "AutoDelta" }

EstimateArgs ==
    UNION { [cls : EstimateClasses, prefix : {"auto"}, init_locs : {locs},
             params : [ { LocName(k, "auto") : k \in locs } -> 0..MaxLoc ],
             quantiles : { <<1>>, <<1, 3>> }]
            : locs \in { {"x"}, {"x", "y"} } }

EstimateInit ==
    /\ fn_name = "estimate"
    /\ fn_args \in EstimateArgs
    /\ fn_result = EmptyMap
    /\ fn_pc = "ready"

median ==
    /\ fn_pc = "ready"
    /\ fn_name = "estimate"
    /\ fn_name' = "median"
    /\ fn_result' = Estimate(fn_args, "median")
    /\ fn_pc' = "returned"
    /\ UNCHANGED fn_args
    /\ UNCHANGED <<guideVars, rsVars, sdVars, dlVars, daVars, cfVars>>

quantiles ==
    /\ fn_pc = "ready"
    /\ fn_name = "estimate"
    /\ fn_name' = "quantiles"
    /\ fn_result' = Estimate(fn_args, "quantiles")
    /\ fn_pc' = "returned"
    /\ UNCHANGED fn_args
    /\ UNCHANGED <<guideVars, rsVars, sdVars, dlVars, daVars, cfVars>>

NextEstimate == median \/ quantiles

(***************************************************************************)
(* numpyro/util.py: control_flow_prims_disabled and the control-flow       *)
(* helpers cond, while_loop, fori_loop, scan and tscan.  Functions passed  *)
(* as arguments are drawn from a few named ones.                           *)
(***************************************************************************)
\* how many with-blocks are nested at most
MaxDepth == 2
\* the largest operand, initial value and loop limit
MaxOperand == 2
\* the largest length of bs
MaxLen == 2

\* fn_name, fn_args and fn_result describe the helper called since the flag
\* was last written: writing the flag drops the description
Forget ==
    /\ fn_name' = "idle"
    /\ fn_args' = EmptyMap
    /\ fn_result' = EmptyMap
    /\ fn_pc' = "idle"

\* stored_flag = _DISABLE_CONTROL_FLOW_PRIM, then the flag is set, up to the yield
Enter ==
    /\ Len(cf_blocks) < MaxDepth
    /\ cf_blocks' = Append(cf_blocks,
                           [stored_flag |-> DISABLE_CONTROL_FLOW_PRIM,
                            entry |-> DISABLE_CONTROL_FLOW_PRIM])
    /\ DISABLE_CONTROL_FLOW_PRIM' = TRUE
    /\ UNCHANGED cf_left
    /\ Forget
    /\ UNCHANGED <<guideVars, rsVars, sdVars, dlVars, daVars>>

\* a finally clause that switches the primitives back on
RestoreFalse(block) == FALSE

\* the value the finally clause assigns to the flag
Restore(block) == block.stored_flag

\* the body of the innermost block ends, normally or by an exception that
\* propagates out of it: the finally clause runs
Leave(how) ==
    /\ cf_blocks # <<>>
    /\ DISABLE_CONTROL_FLOW_PRIM' = Restore(cf_blocks[Len(cf_blocks)])
    /\ cf_left' = [stored_flag |-> cf_blocks[Len(cf_blocks)].stored_flag,
                   entry |-> cf_blocks[Len(cf_blocks)].entry,
                   how |-> how,
                   after |-> Restore(cf_blocks[Len(cf_blocks)])]
    /\ cf_blocks' = SubSeq(cf_blocks, 1, Len(cf_blocks) - 1)
    /\ Forget
    /\ UNCHANGED <<guideVars, rsVars, sdVars, dlVars, daVars>>

LeaveNormally == Leave("normal")

LeaveByException == Leave("exception")

\* the predicates passed as cond_fun: lambda val: val < f.k
Test(f, val) == val < f.k

\* the i-th slice of every array of bs (i counted from 0)
Slice(bs, i) == [j \in 1..Len(bs) |-> bs[j][i + 1]]

\* the functions passed as f to tscan: the carry has two fields, b one
StepOf(f, a, b) ==
    CASE f = "acc"  -> << a[1] + b[1], a[1] + a[2] >>
      [] f = "swap" -> << a[2], a[1] + b[1] >>

\* a body_fun that stores the carry it was given, not the one it computed
TscanBodyStale(f, i, vals) ==
    [a |-> StepOf(f.f, vals.a, Slice(f.bs, i)),
     state |-> [n \in 1..Len(f.fields) |->
                  [vals.state[n] EXCEPT ![i + 1] = vals.a[f.fields[n] + 1]]]]

\* body_fun of tscan and of _tscan_impl: vals is (a, state)
TscanBody(f, i, vals) ==
    [a |-> StepOf(f.f, vals.a, Slice(f.bs, i)),
     state |-> [n \in 1..Len(f.fields) |->
                  [vals.state[n] EXCEPT ![i + 1] =
                      StepOf(f.f, vals.a, Slice(f.bs, i))[f.fields[n] + 1]]]]

\* the functions passed as true_fun, false_fun and as body_fun of while_loop
Apply1(f, x) ==
    CASE f = "inc"  -> x + 1
      [] f = "add2" -> x + 2
      [] f = "dbl1" -> 2 * x + 1

\* the functions passed as body_fun of fori_loop and as f of scan, and the
\* closure body_fun of tscan with the f, bs and fields it captures
Apply2(f, i, val) ==
    CASE f.tag = "add"    -> val + i
      [] f.tag = "horner" -> 2 * val + i
      [] f.tag = "index"  -> i
      [] f.tag = "tscan"  -> TscanBody(f, i, val)

\* while cond_fun(val): val = body_fun(val)
RECURSIVE PyWhile(_, _, _)
PyWhile(c, f, val) == IF Test(c, val) THEN PyWhile(c, f, Apply1(f, val)) ELSE val

\* body_fun applied n times
RECURSIVE Iterate(_, _, _)
Iterate(f, n, val) == IF n = 0 THEN val ELSE Apply1(f, Iterate(f, n - 1, val))

\* jax.lax.while_loop: the first iterate of body_fun that fails cond_fun
LaxWhile(c, f, val) ==
    Iterate(f, CHOOSE n \in 0..(c.k + 1) :
                   /\ ~Test(c, Iterate(f, n, val))
                   /\ \A m \in 0..(n - 1) : Test(c, Iterate(f, m, val)),
            val)

\* for i in range(int(lower), int(upper)): val = body_fun(i, val)
RECURSIVE PyFori(_, _, _, _)
PyFori(i, upper, f, val) ==
    IF i < upper THEN PyFori(i + 1, upper, f, Apply2(f, i, val)) ELSE val

\* jax.lax.fori_loop: the value after the index upper - 1, from the one before
RECURSIVE LaxFori(_, _, _, _)
LaxFori(lower, upper, f, val) ==
    IF upper <= lower THEN val
    ELSE Apply2(f, upper - 1, LaxFori(lower, upper - 1, f, val))

\* cond(pred, true_operand, true_fun, false_operand, false_fun)
cond(a, disabled) ==
    IF disabled
    THEN IF a.pred THEN Apply1(a.true_fun, a.true_operand)
                   ELSE Apply1(a.false_fun, a.false_operand)
    ELSE Apply1(<<a.false_fun, a.true_fun>>[IF a.pred THEN 2 ELSE 1],
                <<a.false_operand, a.true_operand>>[IF a.pred THEN 2 ELSE 1])

\* while_loop(cond_fun, body_fun, init_val)
while_loop(a, disabled) ==
    IF disabled THEN PyWhile(a.cond_fun, a.body_fun, a.init_val)
    ELSE LaxWhile(a.cond_fun, a.body_fun, a.init_val)

\* a fallback that also runs the index upper
fori_loopInclusive(a, disabled) ==
    IF disabled THEN PyFori(a.lower, a.upper + 1, a.body_fun, a.init_val)
    ELSE LaxFori(a.lower, a.upper, a.body_fun, a.init_val)

\* fori_loop(lower, upper, body_fun, init_val)
fori_loop(a, disabled) ==
    IF disabled THEN PyFori(a.lower, a.upper, a.body_fun, a.init_val)
    ELSE LaxFori(a.lower, a.upper, a.body_fun, a.init_val)

\* jax.lax.scan(f, a, bs): the carries a_1 .. a_n with a_(i+1) = f(a_i, b_i)
RECURSIVE LaxScan(_, _, _)
LaxScan(f, a, bs) ==
    IF bs = <<>> THEN <<>>
    ELSE <<Apply2(f, bs[1], a)>> \o LaxScan(f, Apply2(f, bs[1], a), Tail(bs))

\* scan(f, a, bs): as_ collects f(a, b) for b in bs, a is never reassigned
scan(a, disabled) ==
    IF disabled THEN [i \in 1..Len(a.bs) |-> Apply2(a.f, a.bs[i], a.a)]
    ELSE LaxScan(a.f, a.a, a.bs)

\* lax.full((length,) + a[i].shape, 0) for i in fields
TscanState(a) == [n \in 1..Len(a.fields) |-> [i \in 1..Len(a.bs[1]) |-> 0]]

\* out = [None] * len(a); out[field] = state[i] for field, i in zip(fields, ...)
TscanOut(a, state) ==
    [j \in 1..Len(a.a) |->
        IF \E n \in 1..Len(a.fields) : a.fields[n] = j - 1
        THEN [is_none |-> FALSE,
              val |-> state[CHOOSE n \in 1..Len(a.fields) :
                               /\ a.fields[n] = j - 1
                               /\ \A m \in (n + 1)..Len(a.fields) : a.fields[m] # j - 1]]
        ELSE [is_none |-> TRUE, val |-> <<>>]]

\* tscan(f, a, bs, fields): the fallback loops with fori_loop of this module,
\* _tscan binds the primitive whose implementation _tscan_impl loops with
\* jax.lax.fori_loop
tscan(a, disabled) ==
    TscanOut(a, fori_loop([lower |-> 0, upper |-> Len(a.bs[1]), body_fun |-> [tag |-> "tscan", f |-> a.f, bs |-> a.bs,
                                        fields |-> a.fields],
                           init_val |-> [a |-> a.a, state |-> TscanState(a)]],
                          disabled).state)

Operands == 0..MaxOperand

Arrays == UNION { [1..n -> 0..1] : n \in 0..MaxLen }

\* one call of a helper, inside or outside the with-blocks
Returns(name, a, value) ==
    /\ fn_pc = "idle"
    /\ fn_name' = name
    /\ fn_args' = a
    /\ fn_result' = [value |-> value, disabled |-> DISABLE_CONTROL_FLOW_PRIM]
    /\ fn_pc' = "returned"
    /\ UNCHANGED <<guideVars, rsVars, sdVars, dlVars, daVars, cfVars>>

CallCond ==
    \E a \in [pred : BOOLEAN, true_operand : Operands, true_fun : {"inc", "dbl1"},
               false_operand : Operands, false_fun : {"inc", "add2"}] :
        Returns("cond", a, cond(a, DISABLE_CONTROL_FLOW_PRIM))

CallWhileLoop ==
    \E a \in [cond_fun : [k : 0..(MaxOperand + 1)],
               body_fun : {"inc", "add2", "dbl1"}, init_val : Operands] :
        Returns("while_loop", a, while_loop(a, DISABLE_CONTROL_FLOW_PRIM))

CallForiLoop ==
    \E a \in [lower : 0..MaxOperand, upper : 0..(MaxOperand + 1),
               body_fun : [tag : {"add", "horner", "index"}], init_val : Operands] :
        Returns("fori_loop", a, fori_loop(a, DISABLE_CONTROL_FLOW_PRIM))

CallScan ==
    \E a \in [f : [tag : {"add", "horner"}], a : Operands, bs : Arrays] :
        Returns("scan", a, scan(a, DISABLE_CONTROL_FLOW_PRIM))

CallTscan ==
    \E a \in [f : {"acc", "swap"}, a : Operands \X {0, 1},
               bs : { <<b>> : b \in Arrays },
               fields : { <<0>>, <<1>>, <<0, 1>>, <<1, 0>> }] :
        Returns("tscan", a, tscan(a, DISABLE_CONTROL_FLOW_PRIM))

NextUtil ==
    \/ Enter \/ LeaveNormally \/ LeaveByException
    \/ CallCond \/ CallWhileLoop \/ CallForiLoop \/ CallScan \/ CallTscan

(***************************************************************************)
(* AutoGuide._create_plates and one call of an AutoNormal guide, with the  *)
(* plates entered and the param and sample statements emitted.             *)
(***************************************************************************)
\* a new instance, as GuideInit leaves it
FreshGuide == [trace |-> NoTrace, frames |-> EmptyMap, full |-> EmptyMap,
               attrs |-> {}, event_dims |-> {}, latent_dim |-> 0,
               runs |-> 0, ran |-> FALSE, err |-> NoErr]

\* the plates a create_plates callback returns (sizes no model plate has)
UserPlate(name) == [is_plate |-> TRUE, name |-> name, size |-> 7, dim |-> -3,
                    sub |-> IntOf(5), by |-> "user"]

NonPlate == [is_plate |-> FALSE, name |-> "", size |-> 0, dim |-> 0, sub |-> NoInt,
             by |-> "user"]

\* self.create_plates(*args, **kwargs): a plate, or a list
Callbacks ==
    { [is_plate |-> TRUE,  items |-> <<UserPlate("a")>>],
      [is_plate |-> FALSE, items |-> <<UserPlate("b"), UserPlate("c")>>],
      [is_plate |-> FALSE, items |-> <<UserPlate("a"), NonPlate>>] }

\* the constructor argument create_plates: None or a callback
CreatePlatesArgs == { [is_none |-> TRUE, returns |-> [is_plate |-> FALSE, items |-> <<>>]] }
                    \cup { [is_none |-> FALSE, returns |-> r] : r \in Callbacks }

ErrNonPlate == "AssertionError: create_plates() returned a non-plate"
ErrFullSize == "KeyError: _prototype_frame_full_sizes"

\* the loop over sorted(self._prototype_frames.items()) with every frame
\* auto-created, also those the callback covers
AutoPlatesAll(g, user) ==
    [name \in DOMAIN g.frames \cup { user[i].name : i \in 1..Len(user) } |->
        IF name \in DOMAIN g.frames
        THEN [is_plate |-> TRUE, name |-> name, size |-> g.full[name],
              dim |-> g.frames[name].dim, sub |-> IntOf(g.frames[name].size),
              by |-> "auto"]
        ELSE user[CHOOSE i \in 1..Len(user) :
                     /\ user[i].name = name
                     /\ \A j \in (i + 1)..Len(user) : user[j].name # name]]

\* self.plates = {p.name: p for p in plates}, then the loop over
\* sorted(self._prototype_frames.items()) creating the plates not yet there
AutoPlates(g, user) ==
    [name \in DOMAIN g.frames \cup { user[i].name : i \in 1..Len(user) } |->
        IF \E i \in 1..Len(user) : user[i].name = name
        THEN user[CHOOSE i \in 1..Len(user) :
                     /\ user[i].name = name
                     /\ \A j \in (i + 1)..Len(user) : user[j].name # name]
        ELSE [is_plate |-> TRUE, name |-> name, size |-> g.full[name],
              dim |-> g.frames[name].dim, sub |-> IntOf(g.frames[name].size),
              by |-> "auto"]]

\* self._create_plates(*args, **kwargs): the plates, or the error raised
create_plates(g, cb) ==
    IF \E i \in 1..Len(cb.returns.items) : ~cb.returns.items[i].is_plate
    THEN [err |-> ErrNonPlate, plates |-> EmptyMap]
    ELSE IF \E name \in DOMAIN g.frames \ DOMAIN g.full :
               \A i \in 1..Len(cb.returns.items) : cb.returns.items[i].name # name
    THEN [err |-> ErrFullSize, plates |-> EmptyMap]
    ELSE [err |-> NoErr, plates |-> AutoPlates(g, cb.returns.items)]

\* the names of the first k frames of a site's cond_indep_stack
OpenNames(site, k) == [j \in 1..k |-> site.stack[j].name]

\* a block that an exception leaves without exiting the plates
SiteEventsNoExit(site, plates, prefix, raises) ==
    [k \in 1..Len(site.stack) |->
        [op |-> "enter", name |-> site.stack[k].name, site |-> site.name,
         plate |-> plates[site.stack[k].name],
         open |-> OpenNames(site, k)]]
    \o << [op |-> "param", name |-> LocName(site.name, prefix), site |-> site.name,
           plate |-> NonPlate, open |-> OpenNames(site, Len(site.stack))],
          [op |-> "param", name |-> site.name \o "_" \o prefix \o "_scale",
           site |-> site.name, plate |-> NonPlate,
           open |-> OpenNames(site, Len(site.stack))] >>
    \o (IF raises THEN <<>>
        ELSE << [op |-> "sample", name |-> site.name, site |-> site.name,
                 plate |-> NonPlate, open |-> OpenNames(site, Len(site.stack))] >>
             \o [k \in 1..Len(site.stack) |->
                 [op |-> "exit", name |-> site.stack[Len(site.stack) - k + 1].name,
                  site |-> site.name,
                  plate |-> plates[site.stack[Len(site.stack) - k + 1].name],
                  open |-> OpenNames(site, Len(site.stack) - k)]])

\* what the with ExitStack() block of one site emits; raises tells whether the
\* sample statement raises, in which case the block is left by the exception
SiteEvents(site, plates, prefix, raises) ==
    [k \in 1..Len(site.stack) |->
        [op |-> "enter", name |-> site.stack[k].name, site |-> site.name,
         plate |-> plates[site.stack[k].name],
         open |-> OpenNames(site, k)]]
    \o << [op |-> "param", name |-> LocName(site.name, prefix), site |-> site.name,
           plate |-> NonPlate, open |-> OpenNames(site, Len(site.stack))],
          [op |-> "param", name |-> site.name \o "_" \o prefix \o "_scale",
           site |-> site.name, plate |-> NonPlate,
           open |-> OpenNames(site, Len(site.stack))] >>
    \o (IF raises THEN <<>>
        ELSE << [op |-> "sample", name |-> site.name, site |-> site.name,
                 plate |-> NonPlate, open |-> OpenNames(site, Len(site.stack))] >>)
    \o [k \in 1..Len(site.stack) |->
        [op |-> "exit", name |-> site.stack[Len(site.stack) - k + 1].name,
         site |-> site.name,
         plate |-> plates[site.stack[Len(site.stack) - k + 1].name],
         open |-> OpenNames(site, Len(site.stack) - k)]]

ErrSample == "error raised by the sample statement"

\* the number of unobserved sample sites among the first i sites
RECURSIVE LatentsUpTo(_, _)
LatentsUpTo(tr, i) ==
    IF i = 0 THEN 0 ELSE LatentsUpTo(tr, i - 1) + (IF IsLatent(tr[i]) THEN 1 ELSE 0)

\* the loop of AutoNormal.__call__ from site i on; r holds the events emitted,
\* the keys of result and the error raised so far
RECURSIVE NormalLoop(_, _, _, _, _)
NormalLoop(g, plates, fail, i, r) ==
    IF i > Len(g.trace) \/ r.raised # NoErr THEN r
    ELSE IF ~IsLatent(g.trace[i]) THEN NormalLoop(g, plates, fail, i + 1, r)
    ELSE IF g.trace[i].name \notin g.event_dims
    THEN [r EXCEPT !.raised = ErrKey]
    ELSE NormalLoop(g, plates, fail, i + 1,
            [r EXCEPT
               !.events = @ \o SiteEvents(g.trace[i], plates, "auto",
                                          fail = LatentsUpTo(g.trace, i)),
               !.keys = IF fail = LatentsUpTo(g.trace, i) THEN @
                        ELSE Append(@, g.trace[i].name),
               !.raised = IF fail = LatentsUpTo(g.trace, i) THEN ErrSample ELSE NoErr])

\* the part of AutoNormal.__call__ after the setup guard
NormalBody(g, a) ==
    IF g.err # NoErr
    THEN [raised |-> g.err, returned |-> FALSE, guide |-> g, plates |-> EmptyMap,
          events |-> <<>>, keys |-> <<>>]
    ELSE IF create_plates(g, a.create_plates).err # NoErr
    THEN [raised |-> create_plates(g, a.create_plates).err, returned |-> FALSE,
          guide |-> g, plates |-> EmptyMap, events |-> <<>>, keys |-> <<>>]
    ELSE NormalLoop(g, create_plates(g, a.create_plates).plates, a.fail, 1,
                    [raised |-> NoErr, returned |-> FALSE, guide |-> g,
                     plates |-> create_plates(g, a.create_plates).plates,
                     events |-> <<>>, keys |-> <<>>])

\* the instance the call is made on: new, or called once before
InstanceOf(a) ==
    IF a.called_before
    THEN [AfterCall("AutoNormal", FreshGuide, a.model) EXCEPT !.err = NoErr, !.ran = FALSE]
    ELSE FreshGuide

\* guide(*args, **kwargs) of an AutoNormal instance
Finished(r) == [r EXCEPT !.returned = (r.raised = NoErr)]

AutoNormal_call(a) ==
    Finished(NormalBody(SetupGuard("AutoNormal", InstanceOf(a), a.model), a))

NormalInit ==
    /\ fn_name = "AutoNormal.__call__"
    /\ fn_args \in [model : Programs, create_plates : CreatePlatesArgs,
                    fail : 0..2, called_before : BOOLEAN]
    /\ fn_result = EmptyMap
    /\ fn_pc = "ready"

CallNormal ==
    /\ fn_pc = "ready"
    /\ fn_name = "AutoNormal.__call__"
    /\ fn_result' = AutoNormal_call(fn_args)
    /\ fn_pc' = "returned"
    /\ UNCHANGED <<fn_name, fn_args>>
    /\ UNCHANGED <<guideVars, rsVars, sdVars, dlVars, daVars, cfVars>>

NextNormal == CallNormal

(***************************************************************************)
(* _get_posterior of AutoIAFNormal and AutoBNAFNormal: the list of         *)
(* transforms and the modules registered.                                  *)
(***************************************************************************)
\* the largest num_flows and the largest latent_dim
MaxFlows == 3
MaxLatentDim == 3

ErrLatentDimOne == "ValueError: latent dim = 1. Consider using AutoDiagonalNormal instead"

\* jnp.arange(self.latent_dim)[::-1]
Reversed(d) == [k \in 1..d |-> d - k]

\* a permutation in front of every flow
PermuteBeforeEvery(i) == TRUE

\* if i > 0: flows.append(PermuteTransform(...))
PermuteBefore(i) == i > 0

\* what one round of the loop appends for flow i
FlowLayers(a, i) ==
    (IF PermuteBefore(i)
     THEN << [kind |-> "PermuteTransform", permutation |-> Reversed(a.latent_dim),
              module |-> "", residual |-> "None", hidden |-> <<>>] >>
     ELSE <<>>)
    \o << IF a.cls = "AutoIAFNormal"
          THEN [kind |-> "InverseAutoregressiveTransform",
                permutation |-> [k \in 1..a.latent_dim |-> k - 1],
                module |-> a.prefix \o "_arn__" \o ToString(i),
                residual |-> "None",
                hidden |-> IF a.hidden = <<>> THEN <<a.latent_dim, a.latent_dim>>
                           ELSE a.hidden]
          ELSE [kind |-> "BlockNeuralAutoregressiveTransform",
                permutation |-> <<>>,
                module |-> a.prefix \o "_arn__" \o ToString(i),
                residual |-> IF i < a.num_flows - 1 THEN "gated" ELSE "None",
                hidden |-> a.hidden] >>

\* for i in range(self.num_flows), from i on
RECURSIVE FlowsFrom(_, _)
FlowsFrom(a, i) ==
    IF i >= a.num_flows THEN <<>> ELSE FlowLayers(a, i) \o FlowsFrom(a, i + 1)

\* self._get_posterior(): the error raised or the transforms of the posterior
get_posterior(a) ==
    IF a.latent_dim = 1 THEN [raised |-> ErrLatentDimOne, flows |-> <<>>]
    ELSE [raised |-> NoErr, flows |-> FlowsFrom(a, 0)]

PosteriorInit ==
    /\ fn_name = "_get_posterior"
    /\ fn_args \in [cls : {"AutoIAFNormal", "AutoBNAFNormal"}, prefix : {"auto", "g"},
                    num_flows : 0..MaxFlows, latent_dim : 1..MaxLatentDim,
                    hidden : { <<>>, <<8, 8>> }]
    /\ fn_result = EmptyMap
    /\ fn_pc = "ready"

GetPosterior ==
    /\ fn_pc = "ready"
    /\ fn_name = "_get_posterior"
    /\ fn_result' = get_posterior(fn_args)
    /\ fn_pc' = "returned"
    /\ UNCHANGED <<fn_name, fn_args>>
    /\ UNCHANGED <<guideVars, rsVars, sdVars, dlVars, daVars, cfVars>>

NextPosterior == GetPosterior

(***************************************************************************)
(* The legacy Uniform distribution (contrib/distributions/continuous.py):  *)
(* log_prob and the support constraint.  A float is finite, -inf, inf or   *)
(* nan; a finite one is kept as the pair it was computed from.             *)
(***************************************************************************)
\* the largest of low and high
MaxHigh == 2

\* np.log of an integer-valued float
Log(n) ==
    IF n > 0 THEN [kind |-> "finite", log_of |-> n, minus_log_of |-> 1]
    ELSE IF n = 0 THEN [kind |-> "-inf", log_of |-> 0, minus_log_of |-> 0]
    ELSE [kind |-> "nan", log_of |-> 0, minus_log_of |-> 0]

\* u - v for two results of np.log
Minus(u, v) ==
    CASE u.kind = "nan" \/ v.kind = "nan" -> [u EXCEPT !.kind = "nan"]
      [] u.kind = "-inf" /\ v.kind = "-inf" -> [u EXCEPT !.kind = "nan"]
      [] u.kind = "-inf" -> u
      [] v.kind = "-inf" -> [u EXCEPT !.kind = "inf"]
      [] OTHER -> [u EXCEPT !.minus_log_of = v.log_of]

\* Uniform(low, high).log_prob(value)
log_prob(a) ==
    Minus(Log(IF a.value >= a.low /\ a.value < a.high THEN 1 ELSE 0),
          Log(a.high - a.low))

\* constraints.interval(lower_bound, upper_bound)(x): both ends are excluded
interval(lower_bound, upper_bound, x) == x > lower_bound /\ x < upper_bound

\* Uniform(low, high).support(value)
support(a) == interval(a.low, a.high, a.value)

UniformInit ==
    /\ fn_name = "Uniform"
    /\ fn_args \in [low : -1..MaxHigh, high : -1..MaxHigh, value : -2..(MaxHigh + 1)]
    /\ fn_result = EmptyMap
    /\ fn_pc = "ready"

\* log_prob(value) and support(value) of one Uniform(low, high)
EvalUniform ==
    /\ fn_pc = "ready"
    /\ fn_name = "Uniform"
    /\ fn_result' = [log_prob |-> log_prob(fn_args), in_support |-> support(fn_args)]
    /\ fn_pc' = "returned"
    /\ UNCHANGED <<fn_name, fn_args>>
    /\ UNCHANGED <<guideVars, rsVars, sdVars, dlVars, daVars, cfVars>>

NextUniform == EvalUniform

(***************************************************************************)
(* quantiles(params, quantiles) of the guides that implement it: the       *)
(* shapes of the arrays returned.                                          *)
(***************************************************************************)
\* the largest number of quantiles asked for
MaxQuantiles == 3

ErrNoNorm == "AttributeError: module 'jax.numpy' has no attribute 'norm'"

\* numpy broadcasting of two shapes, aligned at their last axes
RECURSIVE BroadcastShapes(_, _)
BroadcastShapes(s, t) ==
    IF s = <<>> THEN t
    ELSE IF t = <<>> THEN s
    ELSE Append(BroadcastShapes(SubSeq(s, 1, Len(s) - 1), SubSeq(t, 1, Len(t) - 1)),
                IF s[Len(s)] = 1 THEN t[Len(t)] ELSE s[Len(s)])

\* the size of the flat latent: the sizes of the sites added up
RECURSIVE FlatSize(_)
FlatSize(shapes) ==
    IF DOMAIN shapes = {} THEN 0
    ELSE Prod(shapes[CHOOSE k \in DOMAIN shapes : TRUE])
         + FlatSize([k \in DOMAIN shapes \ {CHOOSE k \in DOMAIN shapes : TRUE} |-> shapes[k]])

\* the function that computes the scale of the marginals from scale_tril,
\* as each quantiles method spells it ("" where none is called)
NormFunction(c) ==
    CASE c = "AutoMultivariateNormal"   -> "jnp.linalg.norm"
      [] c = "AutoLaplaceApproximation" -> "jnp.norm"
      [] OTHER                          -> ""

\* _unpack_and_constrain(latent, params): every site gets the batch shape of
\* the flat latent followed by its own shape
UnpackShapes(latent_shape, shapes) ==
    [k \in DOMAIN shapes |-> SubSeq(latent_shape, 1, Len(latent_shape) - 1) \o shapes[k]]

\* guide.quantiles(params, quantiles): the error raised or the shape per site
quantiles_shapes(a) ==
    IF NormFunction(a.cls) = "jnp.norm"
    THEN [raised |-> ErrNoNorm, shapes |-> EmptyMap]
    ELSE IF a.cls = "AutoNormal"
    THEN [raised |-> NoErr,
          shapes |-> [k \in DOMAIN a.shapes |->
                        BroadcastShapes(<<Len(a.quantiles)>>
                                            \o [i \in 1..Len(a.shapes[k]) |-> 1],
                                        a.shapes[k])]]
    ELSE [raised |-> NoErr,
          shapes |-> UnpackShapes(BroadcastShapes(<<Len(a.quantiles), 1>>,
                                                  <<FlatSize(a.shapes)>>),
                                  a.shapes)]

QuantilesInit ==
    /\ fn_name = "quantiles_shapes"
    /\ fn_args \in [cls : {"AutoNormal", "AutoDiagonalNormal", "AutoMultivariateNormal",
                           "AutoLowRankMultivariateNormal", "AutoLaplaceApproximation"},
                    quantiles : UNION { [1..n -> {5}] : n \in 1..MaxQuantiles },
                    shapes : [{"beta"} -> {<<>>, <<2>>, <<2, 2>>}]
                             \cup [{"beta", "tau"} -> {<<>>, <<2>>, <<1, 3>>}]]
    /\ fn_result = EmptyMap
    /\ fn_pc = "ready"

CallQuantiles ==
    /\ fn_pc = "ready"
    /\ fn_name = "quantiles_shapes"
    /\ fn_result' = quantiles_shapes(fn_args)
    /\ fn_pc' = "returned"
    /\ UNCHANGED <<fn_name, fn_args>>
    /\ UNCHANGED <<guideVars, rsVars, sdVars, dlVars, daVars, cfVars>>

NextQuantiles == CallQuantiles

\* ---------------------------------------------------------------------
\* The parameters the annealed-importance-sampling guides declare
\* (AutoDAIS, AutoSurrogateLikelihoodDAIS and AutoSemiDAIS._sample_latent).
\* Floats are counted in hundredths; an initial value is the constant an
\* array of the given shape is filled with.
\* ---------------------------------------------------------------------
MaxUnits == 2

\* numpyro.param(name, init_value): the name and the initial array
Param(name, fill, shape) == [name |-> name, fill |-> fill, shape |-> shape]

ParamNames(ps) == { ps[i].name : i \in DOMAIN ps }

ParamNamed(ps, name) == CHOOSE p \in { ps[i] : i \in DOMAIN ps } : p.name = name

\* the declarations the two full-data guides share, up to '{prefix}_z_0_loc'
DAISCommon(a) ==
    << Param(a.prefix \o "_eta0", a.eta_init, <<>>),
       Param(a.prefix \o "_eta_coeff", 0, <<>>),
       Param(a.prefix \o "_gamma", a.gamma_init, <<>>),
       Param(a.prefix \o "_beta_increments", 100, <<a.K>>),
       Param(a.prefix \o "_mass_matrix", 100, <<a.D>>),
       Param(a.prefix \o "_z_0_loc", a.init_latent, <<a.D>>) >>

AutoDAIS_sample_latent(a) ==
    DAISCommon(a) \o
    (IF a.base_dist = "diagonal"
     THEN << Param(a.prefix \o "_z_0_scale", a.init_scale, <<a.D>>) >>
     ELSE IF a.base_dist = "cholesky"
     THEN << Param(a.prefix \o "_z_0_scale_tril", a.init_scale, <<a.D, a.D>>) >>
     ELSE << >>)

AutoSurrogateLikelihoodDAIS_sample_latent(a) ==
    DAISCommon(a) \o
    (IF a.base_dist = "diagonal"
     THEN << Param(a.prefix \o "_z_0_scale", a.init_scale, <<a.D>>) >>
     ELSE << Param(a.prefix \o "_scale_tril", a.init_scale, <<a.D, a.D>>) >>)

\* the per-unit declarations inside the local plate of AutoSemiDAIS
AutoSemiDAIS_sample_latent(a) ==
    << Param(a.prefix \o "_eta0", a.eta_init, <<a.N>>),
       Param(a.prefix \o "_eta_coeff", 0, <<a.N>>),
       Param(a.prefix \o "_gamma", 90, <<a.N>>),
       Param(a.prefix \o "_beta_increments", 100, <<a.N, a.K>>),
       Param(a.prefix \o "_mass_matrix", 100, <<a.N, a.D>>) >>

DeclareClasses == {"AutoDAIS", "AutoSurrogateLikelihoodDAIS", "AutoSemiDAIS"}

\* the arguments the constructors accept (0 < eta_init < eta_max,
\* 0 < gamma_init < 1, init_scale > 0, K >= 1), N the size of the local
\* plate and D the latent dimension
DeclareArgs ==
    [prefix : {"auto"}, eta_init : {1, 5}, gamma_init : {10, 50, 90},
     base_dist : {"diagonal", "cholesky"}, init_scale : {10}, init_latent : {0},
     K : 1..MaxUnits, N : 1..MaxUnits, D : 1..MaxUnits]

DeclareInit ==
    /\ fn_name \in DeclareClasses
    /\ fn_args \in DeclareArgs
    /\ fn_result = << >>
    /\ fn_pc = "ready"

SampleLatent(class, body(_)) ==
    /\ fn_pc = "ready"
    /\ fn_name = class
    /\ fn_result' = body(fn_args)
    /\ fn_pc' = "returned"
    /\ UNCHANGED <<fn_name, fn_args>>
    /\ UNCHANGED <<guideVars, rsVars, sdVars, dlVars, daVars, cfVars>>

DeclareDAIS == SampleLatent("AutoDAIS", AutoDAIS_sample_latent)

DeclareSurrogate ==
    SampleLatent("AutoSurrogateLikelihoodDAIS", AutoSurrogateLikelihoodDAIS_sample_latent)

DeclareSemi == SampleLatent("AutoSemiDAIS", AutoSemiDAIS_sample_latent)

NextDeclare == DeclareDAIS \/ DeclareSurrogate \/ DeclareSemi

\* ---------------------------------------------------------------------
\* temperature_adapter: the window schedule around the dual-averaging
\* scheme.  dual_averaging() is called as a library; its iterates are kept
\* as terms (sequences of strings) that name the state they are read from.
\* ---------------------------------------------------------------------
MaxAdaptT == 80

init_window_size == 25

target_accept_prob == 33

RECURSIVE Pow2(_)
Pow2(n) == IF n = 0 THEN 1 ELSE 2 * Pow2(n - 1)

\* -x on terms
Neg(x) == IF Len(x) > 0 /\ Head(x) = "-" THEN Tail(x) ELSE <<"-">> \o x

\* da_init(prox_center) and da_update(g, da_state) of dual_averaging()
da_init(prox_center) == [prox_center |-> prox_center, t |-> 0, g |-> 0]

da_update(g, da_state) == [da_state EXCEPT !.t = @ + 1, !.g = g]

\* neg_temperature, neg_temperature_avg, *_ = da_state
CurrentIterate(da_state) == <<"x_t", ToString(da_state.t)>> \o da_state.prox_center

RunningAverage(da_state) == <<"x_avg", ToString(da_state.t)>> \o da_state.prox_center

TempAdaptState(temperature, da_state, window_idx) ==
    [temperature |-> temperature, da_state |-> da_state, window_idx |-> window_idx]

\* init_fn(temperature)
TempInit(temperature) == TempAdaptState(temperature, da_init(Neg(temperature)), 0)

\* a window that ends one step late
AtWindowEndLate(t, window_idx) ==
    t = init_window_size * (Pow2(window_idx + 1) - 1)

\* t == (init_window_size * (2 ** (window_idx + 1) - 1) - 1)
AtWindowEnd(t, window_idx) ==
    t = init_window_size * (Pow2(window_idx + 1) - 1) - 1

\* num_adapt_steps is a number of steps or float("inf")
AtLastAdaptStep(t, num_adapt_steps) ==
    num_adapt_steps.finite /\ t = num_adapt_steps.n - 1

\* jnp.where(t == (num_adapt_steps - 1), -neg_temperature_avg, -neg_temperature)
ReportedTemperature(t, num_adapt_steps, da_state) ==
    IF AtLastAdaptStep(t, num_adapt_steps) THEN Neg(RunningAverage(da_state))
                                             ELSE Neg(CurrentIterate(da_state))

\* the tail of update_fn, with da_state already updated
UpdateTail(t, temperature, da_state, window_idx) ==
    TempAdaptState(temperature,
                   IF AtWindowEnd(t, window_idx) THEN da_init(Neg(temperature))
                                                 ELSE da_state,
                   IF AtWindowEnd(t, window_idx) THEN window_idx + 1 ELSE window_idx)

\* update_fn(t, accept_prob, state) for the adapter built with num_adapt_steps
update_fn(num_adapt_steps, t, accept_prob, state) ==
    UpdateTail(t,
               ReportedTemperature(t, num_adapt_steps,
                   da_update(target_accept_prob - accept_prob, state.da_state)),
               da_update(target_accept_prob - accept_prob, state.da_state),
               state.window_idx)

Finite(n) == [finite |-> TRUE, n |-> n]

Infinite == [finite |-> FALSE, n |-> 0]

AdaptSteps == {Finite(10), Finite(25), Finite(75), Infinite}

AcceptProbs == {0, 100}

AdaptInit ==
    /\ fn_name = "temperature_adapter"
    /\ fn_args \in [num_adapt_steps : AdaptSteps, t : {0}, accept_prob : {0}]
    /\ fn_result = [state |-> TempInit(<<"T_init">>), prev |-> TempInit(<<"T_init">>)]
    /\ fn_pc = "ready"

\* the caller's next update_fn(t, accept_prob, state), t counting up from 0
AdaptUpdate ==
    /\ fn_pc = "ready"
    /\ fn_name = "temperature_adapter"
    /\ fn_args.t < MaxAdaptT
    /\ \E accept_prob \in AcceptProbs :
          /\ fn_result' = [state |-> update_fn(fn_args.num_adapt_steps, fn_args.t,
                                               accept_prob, fn_result.state),
                           prev |-> fn_result.state]
          /\ fn_args' = [fn_args EXCEPT !.t = @ + 1, !.accept_prob = accept_prob]
    /\ UNCHANGED <<fn_name, fn_pc>>
    /\ UNCHANGED <<guideVars, rsVars, sdVars, dlVars, daVars, cfVars>>

NextAdapt == AdaptUpdate

\* ---------------------------------------------------------------------
\* AutoRVRS._sample_latent with adaptation_scheme = 'dual_averaging': the
\* mutable sites '_num_updates' and '_T_adapt' over successive invocations.
\* ---------------------------------------------------------------------
MaxWarmup == 4

MaxUpdates == 28

\* t < self.num_warmup
InWarmup(t, num_warmup) == ~num_warmup.finite \/ t < num_warmup.n

\* an adaptation that reads the counter before it was incremented
AdaptTemperatureStale(num_warmup, num_updates, Z, T_adapt) ==
    IF InWarmup(num_updates - 1, num_warmup)
    THEN update_fn(num_warmup, num_updates - 1, Z, T_adapt)
    ELSE T_adapt

\* lax.cond(t < self.num_warmup, (t, Z, T_adapt), self._da_update, T_adapt, id)
\* with t = num_updates["value"], read after the increment
AdaptTemperature(num_warmup, num_updates, Z, T_adapt) ==
    IF InWarmup(num_updates, num_warmup)
    THEN update_fn(num_warmup, num_updates, Z, T_adapt)
    ELSE T_adapt

Warmups == { Finite(w) : w \in 0..MaxWarmup } \cup { Finite(26) }

\* _setup_prototype builds the adapter from self.T and self.num_warmup; the
\* mutable sites start from _da_init_state and 0
RVRSInit ==
    /\ fn_name = "AutoRVRS"
    /\ fn_args \in [num_warmup : Warmups, Z : {0}]
    /\ fn_result = [num_updates |-> 0, T_adapt |-> TempInit(<<"T">>),
                    prev |-> TempInit(<<"T">>), T |-> <<"T">>]
    /\ fn_pc = "ready"

\* one invocation: T is read from '_T_adapt', the counter is incremented and
\* the adapter is applied to the estimate Z of the acceptance rate
RVRSSampleLatent ==
    /\ fn_pc = "ready"
    /\ fn_name = "AutoRVRS"
    /\ fn_result.num_updates < MaxUpdates
    /\ \E Z \in AcceptProbs :
          /\ fn_result' =
                [num_updates |-> fn_result.num_updates + 1,
                 T_adapt |-> AdaptTemperature(fn_args.num_warmup,
                                 fn_result.num_updates + 1, Z, fn_result.T_adapt),
                 prev |-> fn_result.T_adapt,
                 T |-> fn_result.T_adapt.temperature]
          /\ fn_args' = [fn_args EXCEPT !.Z = Z]
    /\ UNCHANGED <<fn_name, fn_pc>>
    /\ UNCHANGED <<guideVars, rsVars, sdVars, dlVars, daVars, cfVars>>

NextRVRS == RVRSSampleLatent

\* ---------------------------------------------------------------------
\* _rs_local_impl: the rejection sampler over the M units of a subsample.
\* Of the buffer only the is_accepted leaf (S flags per unit) is kept; the
\* uniform offset of the systematic resampling is a multiple of
\* 1 / UniformSteps in [0, 1).
\* ---------------------------------------------------------------------
MaxLocalS == 2

LocalUnits == {1, 2}

MaxLocalIters == 2

Offsets == {0, 1}

UniformSteps == Cardinality(Offsets)

TrueCount(flags) == Cardinality({ i \in DOMAIN flags : flags[i] })

\* weights that ignore what was accepted
LocalWeightsEqual(buffer, S) == [u \in DOMAIN buffer |-> 1]

\* weights = S - is_accepted.sum(0); weights = where(weights < 0, 0, weights)
\* (the division by weights.sum() is carried by Total in SearchSorted)
LocalWeights(buffer, S) ==
    [u \in DOMAIN buffer |->
        IF S - TrueCount(buffer[u]) < 0 THEN 0 ELSE S - TrueCount(buffer[u])]

RECURSIVE CumSum(_, _)
CumSum(w, i) == IF i = 0 THEN 0 ELSE CumSum(w, i - 1) + w[i]

\* cummulative_weight.searchsorted(position), side 'left', for the position
\* (offset / UniformSteps + k) / num_samples: the first unit whose normalised
\* cumulative weight is not below the position
SearchSorted(w, offset, k, num_samples) ==
    CHOOSE i \in DOMAIN w :
        /\ CumSum(w, i) * num_samples * UniformSteps
              >= (offset + k * UniformSteps) * CumSum(w, Len(w))
        /\ \A j \in 1..(i - 1) :
              CumSum(w, j) * num_samples * UniformSteps
                  < (offset + k * UniformSteps) * CumSum(w, Len(w))

get_systematic_resampling_indices(weights, offset, num_samples) ==
    [k \in 1..num_samples |-> SearchSorted(weights, offset, k - 1, num_samples)]

\* new_buffer of update_idx: the flags argsort(is_accepted)[-S:] of
\* concatenate([candidate, buffer])
MergeFlags(candidate, buffer, S) ==
    TakeRows(candidate \o buffer, LastS(ArgSort(candidate \o buffer), S))

\* update_idx(i, val) for one i, and for i = 1..upto as lax.fori_loop folds it
UpdateOne(val, idx, candidate, S) ==
    [buffer |-> [val.buffer EXCEPT ![idx] = MergeFlags(candidate, @, S)],
     num_samples |-> [val.num_samples EXCEPT ![idx] = @ + 1]]

RECURSIVE UpdateIdx(_, _, _, _, _)
UpdateIdx(upto, resample_idxs, cand, val, S) ==
    IF upto = 0 THEN [buffer |-> val.buffer, num_samples |-> val.num_samples]
    ELSE UpdateOne(UpdateIdx(upto - 1, resample_idxs, cand, val, S),
                   resample_idxs[upto], cand[upto], S)

\* cond_fn: (is_accepted.sum(0) < S).any()
LocalCondFn(buffer, S) == \E u \in DOMAIN buffer : TrueCount(buffer[u]) < S

\* c accepted proposals among S candidates
FlagsWith(c, S) == [k \in 1..S |-> k <= c]

\* init_val: no flag set, no proposal counted
LocalInit ==
    /\ fn_name = "rs_local"
    /\ fn_args \in [S : 1..MaxLocalS, M : LocalUnits]
    /\ fn_result = [buffer |-> [u \in 1..fn_args.M |-> [k \in 1..fn_args.S |-> FALSE]],
                    num_samples |-> [u \in 1..fn_args.M |-> 0],
                    iters |-> 0,
                    prev |-> [buffer |-> << >>, num_samples |-> << >>],
                    weights |-> << >>, offset |-> 0, resample_idxs |-> << >>]
    /\ fn_pc = "loop"

\* the value batch_body_fn returns, from the value the fori_loop returns
AfterUpdates(updated, val, weights, offset, resample_idxs) ==
    [buffer |-> updated.buffer,
     num_samples |-> updated.num_samples,
     iters |-> val.iters + 1,
     prev |-> [buffer |-> val.buffer, num_samples |-> val.num_samples],
     weights |-> weights, offset |-> offset, resample_idxs |-> resample_idxs]

Resampled(val, weights, offset, resample_idxs, cand, S) ==
    AfterUpdates(UpdateIdx(Len(resample_idxs), resample_idxs, cand, val, S),
                 val, weights, offset, resample_idxs)

\* batch_body_fn(val) with the drawn offset and the candidates' flags
batch_body_fn(val, weights, offset, cand, S, M) ==
    Resampled(val, weights, offset,
              get_systematic_resampling_indices(weights, offset, M), cand, S)

\* one pass of batch_body_fn with the drawn offset and, per slot, the number
\* of its S candidates with log_u < accept_log_prob
LocalBatchBody ==
    /\ fn_pc = "loop"
    /\ fn_name = "rs_local"
    /\ LocalCondFn(fn_result.buffer, fn_args.S)
    /\ fn_result.iters < MaxLocalIters
    /\ \E offset \in Offsets, c \in [1..fn_args.M -> 0..fn_args.S] :
          fn_result' = batch_body_fn(fn_result, LocalWeights(fn_result.buffer, fn_args.S),
                                     offset,
                                     [i \in 1..fn_args.M |-> FlagsWith(c[i], fn_args.S)],
                                     fn_args.S, fn_args.M)
    /\ UNCHANGED <<fn_name, fn_args, fn_pc>>
    /\ UNCHANGED <<guideVars, rsVars, sdVars, dlVars, daVars, cfVars>>

\* the while_loop returns once cond_fn is false
LocalExit ==
    /\ fn_pc = "loop"
    /\ fn_name = "rs_local"
    /\ ~LocalCondFn(fn_result.buffer, fn_args.S)
    /\ fn_pc' = "returned"
    /\ UNCHANGED <<fn_name, fn_args, fn_result>>
    /\ UNCHANGED <<guideVars, rsVars, sdVars, dlVars, daVars, cfVars>>

NextLocal == LocalBatchBody \/ LocalExit

\* ---------------------------------------------------------------------
\* AutoRVRS._sample_latent: the declaration of the parameters recorded in
\* the cached prototype_trace and prototype_guide_trace.
\* ---------------------------------------------------------------------
MaxInvocations == 2

\* site["kwargs"] of a traced site: the constraint keyword, when given
NoKwarg == [given |-> FALSE, constraint |-> "-"]

Kwarg(c) == [given |-> TRUE, constraint |-> c]

ConstraintKwargs == {NoKwarg, Kwarg("real"), Kwarg("positive"), Kwarg("unit_interval")}

TracedSite(type, kwargs) == [type |-> type, kwargs |-> kwargs]

\* the traces _setup_prototype caches: a model with a latent 'x' and a
\* parameter 'w', and the inner guide's '{prefix}_loc' and '{prefix}_scale'
PrototypeTraces ==
    { [model |-> [n \in {"w", "x"} |->
                     IF n = "w" THEN TracedSite("param", kw) ELSE TracedSite("sample", NoKwarg)],
       guide |-> [n \in {"auto_loc", "auto_scale"} |->
                     IF n = "auto_loc" THEN TracedSite("param", kl)
                                       ELSE TracedSite("param", ks)]] :
        kw \in ConstraintKwargs, kl \in ConstraintKwargs, ks \in ConstraintKwargs }

\* dict.pop("constraint", constraints.real): the value returned ...
PopValue(kwargs) == IF kwargs.given THEN kwargs.constraint ELSE "real"

\* ... and the dict it leaves behind
PopRest(kwargs) == NoKwarg

\* the numpyro.param declarations of one loop over a trace
DeclaredParams(trace) ==
    [n \in { m \in DOMAIN trace : trace[m].type = "param" } |-> PopValue(trace[n].kwargs)]

\* the trace after the loop
TraceAfter(trace) ==
    [n \in DOMAIN trace |->
        IF trace[n].type = "param"
        THEN [trace[n] EXCEPT !.kwargs = PopRest(@)]
        ELSE trace[n]]

ParamsInit ==
    /\ fn_name = "AutoRVRS_params"
    /\ fn_args \in PrototypeTraces
    /\ fn_result = [prototype_trace |-> fn_args.model,
                    prototype_guide_trace |-> fn_args.guide,
                    model_params |-> << >>, guide_params |-> << >>, calls |-> 0]
    /\ fn_pc = "ready"

\* one invocation of _sample_latent, up to params = {"guide": .., "model": ..}
DeclareRVRSParams ==
    /\ fn_pc = "ready"
    /\ fn_name = "AutoRVRS_params"
    /\ fn_result.calls < MaxInvocations
    /\ fn_result' = [prototype_trace |-> TraceAfter(fn_result.prototype_trace),
                     prototype_guide_trace |-> TraceAfter(fn_result.prototype_guide_trace),
                     model_params |-> DeclaredParams(fn_result.prototype_trace),
                     guide_params |-> DeclaredParams(fn_result.prototype_guide_trace),
                     calls |-> fn_result.calls + 1]
    /\ UNCHANGED <<fn_name, fn_args, fn_pc>>
    /\ UNCHANGED <<guideVars, rsVars, sdVars, dlVars, daVars, cfVars>>

NextParams == DeclareRVRSParams

\* ---------------------------------------------------------------------
\* The leave-one-out factors S/(S-1) and 1/(S-1) of AutoRVRS and
\* AutoSemiRVRS: the constructors' check of S and the divisions of
\* _sample_latent, on Python numbers.
\* ---------------------------------------------------------------------
ErrZeroDivision == "ZeroDivisionError: division by zero"

ErrAssertion == "AssertionError"

Ratio(num, den) == [num |-> num, den |-> den]

NotComputed == Ratio(0, 0)

LooArgs ==
    [cls : {"AutoRVRS", "AutoSemiRVRS"}, S : (0 - 1)..MaxS,
     adaptation_scheme : {"fixed", "Z_target", "dual_averaging"},
     reparameterized : BOOLEAN]

\* __init__: if S < 1: raise ValueError
RVRSCheck(a) == IF a.S < 1 THEN ErrValue ELSE NoErr

\* a / b on Python numbers
PyDivRaises(a, b) == b = 0

\* the statements of _sample_latent that divide by S - 1, in order, and
\* the assert that precedes them in AutoSemiRVRS
LeaveOneOut(a) ==
    IF a.cls = "AutoSemiRVRS" /\ ~a.reparameterized
    THEN [raised |-> ErrAssertion, S_ratio |-> NotComputed, a_minus |-> NotComputed]
    ELSE IF PyDivRaises(a.S, a.S - 1)
    THEN [raised |-> ErrZeroDivision, S_ratio |-> NotComputed, a_minus |-> NotComputed]
    ELSE IF a.adaptation_scheme = "fixed"
    THEN [raised |-> NoErr, S_ratio |-> Ratio(a.S, a.S - 1), a_minus |-> NotComputed]
    ELSE IF PyDivRaises(1, a.S - 1)
    THEN [raised |-> ErrZeroDivision, S_ratio |-> Ratio(a.S, a.S - 1),
          a_minus |-> NotComputed]
    ELSE [raised |-> NoErr, S_ratio |-> Ratio(a.S, a.S - 1),
          a_minus |-> Ratio(1, a.S - 1)]

LooInit ==
    /\ fn_name = "leave_one_out"
    /\ fn_args \in LooArgs
    /\ fn_result = [raised |-> NoErr, S_ratio |-> NotComputed, a_minus |-> NotComputed]
    /\ fn_pc = "ready"

\* AutoRVRS(model, S=..) / AutoSemiRVRS(model, local_model, global_guide, S=..)
LooConstruct ==
    /\ fn_pc = "ready"
    /\ fn_name = "leave_one_out"
    /\ fn_result' = [fn_result EXCEPT !.raised = RVRSCheck(fn_args)]
    /\ fn_pc' = IF RVRSCheck(fn_args) = NoErr THEN "constructed" ELSE "raised"
    /\ UNCHANGED <<fn_name, fn_args>>
    /\ UNCHANGED <<guideVars, rsVars, sdVars, dlVars, daVars, cfVars>>

\* the first call of the constructed guide
LooSampleLatent ==
    /\ fn_pc = "constructed"
    /\ fn_name = "leave_one_out"
    /\ fn_result' = LeaveOneOut(fn_args)
    /\ fn_pc' = "returned"
    /\ UNCHANGED <<fn_name, fn_args>>
    /\ UNCHANGED <<guideVars, rsVars, sdVars, dlVars, daVars, cfVars>>

NextLoo == LooConstruct \/ LooSampleLatent

\* ---------------------------------------------------------------------
\* _ravel_dict and _unravel_dict.  A dict is the sequence of its items in
\* insertion order; an array is its shape, its dtype and its elements in
\* row-major order (numbers with integer values).
\* ---------------------------------------------------------------------
MaxLeaves == 2

MaxFlat == 3

ErrReshape == "TypeError: cannot reshape array of the slice into the shape"

\* the value a float32 holds for an integer v >= 0 below 2^25: exact up to
\* 2^24, above that the nearest even integer with ties to the even mantissa
RoundToFloat32(v) ==
    IF v <= 16777216 \/ v % 2 = 0 THEN v
    ELSE IF ((v - 1) \div 2) % 2 = 0 THEN v - 1 ELSE v + 1

AsType(data, from, to) ==
    IF from = "int32" /\ to = "float32"
    THEN [i \in DOMAIN data |-> RoundToFloat32(data[i])]
    ELSE data

\* a dtype taken from the first array alone
ResultTypeOfFirst(dtypes) == IF dtypes = {} THEN "float32" ELSE CHOOSE d \in dtypes : TRUE

\* the dtype of jnp.concatenate(x_flat): the promotion of the leaves'
\* dtypes; jnp.zeros((0,)) for no leaf
ResultType(dtypes) == IF dtypes = {"int32"} THEN "int32" ELSE "float32"

Array(shape, dtype, data) == [shape |-> shape, dtype |-> dtype, data |-> data]

Item(name, value) == [name |-> name, value |-> value]

RECURSIVE Concatenate(_, _)
Concatenate(x, to) ==
    IF x = << >> THEN << >>
    ELSE AsType(Head(x).value.data, Head(x).value.dtype, to) \o Concatenate(Tail(x), to)

DtypesOf(x) == { x[i].value.dtype : i \in DOMAIN x }

ShapeDictOf(x) == [i \in DOMAIN x |-> Item(x[i].name, x[i].value.shape)]

\* _ravel_dict(x): (x_flat, shape_dict)
_ravel_dict(x) ==
    [x_flat |-> [ndim |-> 1, dtype |-> ResultType(DtypesOf(x)),
                 data |-> Concatenate(x, ResultType(DtypesOf(x)))],
     shape_dict |-> ShapeDictOf(x)]

\* x_flat[curr_pos:next_pos]
FlatSlice(data, curr_pos, next_pos) ==
    SubSeq(data, curr_pos + 1, Min(next_pos, Len(data)))

\* the loop of _unravel_dict from item i on, with x built so far
RECURSIVE UnravelLoop(_, _, _, _, _)
UnravelLoop(x_flat, shape_dict, i, curr_pos, x) ==
    IF i > Len(shape_dict)
    THEN (IF curr_pos = Len(x_flat.data) THEN [raised |-> NoErr, x |-> x]
                                         ELSE [raised |-> ErrAssertion, x |-> << >>])
    ELSE IF Len(FlatSlice(x_flat.data, curr_pos, curr_pos + Prod(shape_dict[i].value)))
              # Prod(shape_dict[i].value)
    THEN [raised |-> ErrReshape, x |-> << >>]
    ELSE UnravelLoop(x_flat, shape_dict, i + 1, curr_pos + Prod(shape_dict[i].value),
             Append(x, Item(shape_dict[i].name,
                            Array(shape_dict[i].value, x_flat.dtype,
                                  FlatSlice(x_flat.data, curr_pos,
                                          curr_pos + Prod(shape_dict[i].value))))))

\* _unravel_dict(x_flat, shape_dict)
_unravel_dict(x_flat, shape_dict) ==
    IF x_flat.ndim # 1 THEN [raised |-> ErrAssertion, x |-> << >>]
    ELSE UnravelLoop(x_flat, shape_dict, 1, 0, << >>)

RavelShapes == { << >>, <<2>>, <<1, 2>> }

RavelValues == {1, 16777217}

Arrays32 ==
    UNION { [shape : {s}, dtype : {"int32", "float32"},
             data : [1..Prod(s) -> RavelValues]] : s \in RavelShapes }

Names == <<"a", "b", "c">>

\* the dicts with up to MaxLeaves items, in either order of their first keys
Dicts ==
    UNION { { [i \in 1..n |-> Item(Names[IF flip /\ i <= 2 /\ n >= 2 THEN 3 - i ELSE i], v[i])] :
                v \in [1..n -> Arrays32], flip \in BOOLEAN } : n \in 0..MaxLeaves }

ShapeDicts ==
    UNION { { [i \in 1..n |-> Item(Names[i], s[i])] : s \in [1..n -> RavelShapes] } :
              n \in 0..MaxLeaves }

FlatArrays ==
    UNION { [ndim : {1, 2}, dtype : {"float32"}, data : [1..n -> {1}]] : n \in 0..MaxFlat }

RavelInit ==
    /\ fn_name \in {"round_trip", "_unravel_dict"}
    /\ fn_args \in IF fn_name = "round_trip"
                   THEN [x : Dicts]
                   ELSE [x_flat : FlatArrays, shape_dict : ShapeDicts]
    /\ fn_result = [raised |-> NoErr, x |-> << >>]
    /\ fn_pc = "ready"

\* _unravel_dict(_ravel_dict(x)[0], _ravel_dict(x)[1])
RoundTrip ==
    /\ fn_pc = "ready"
    /\ fn_name = "round_trip"
    /\ fn_result' = _unravel_dict(_ravel_dict(fn_args.x).x_flat,
                                  _ravel_dict(fn_args.x).shape_dict)
    /\ fn_pc' = "returned"
    /\ UNCHANGED <<fn_name, fn_args>>
    /\ UNCHANGED <<guideVars, rsVars, sdVars, dlVars, daVars, cfVars>>

CallUnravel ==
    /\ fn_pc = "ready"
    /\ fn_name = "_unravel_dict"
    /\ fn_result' = _unravel_dict(fn_args.x_flat, fn_args.shape_dict)
    /\ fn_pc' = "returned"
    /\ UNCHANGED <<fn_name, fn_args>>
    /\ UNCHANGED <<guideVars, rsVars, sdVars, dlVars, daVars, cfVars>>

NextRavel == RoundTrip \/ CallUnravel

\* ---- the specifications of the parts ----
InitRS == GuideIdle /\ RSInit /\ SDIdle /\ DLIdle /\ DAIdle /\ UtilIdle

SpecRS == InitRS /\ [][NextRS]_vars

\* a proposal is eventually accepted while proposals keep being drawn, and
\* while_loop does evaluate its condition
SpecRSFair ==
    /\ InitRS
    /\ [][NextRS]_vars
    /\ SF_vars(BatchAccepts)
    /\ SF_vars(SingleAccepts)
    /\ WF_vars(LoopExit)

InitSemi == GuideIdle /\ RSIdle /\ SDInit /\ DLIdle /\ DAIdle /\ UtilIdle

SpecSemi == InitSemi /\ [][NextSemi]_vars

InitDelta == GuideIdle /\ RSIdle /\ SDIdle /\ DLInit /\ DAIdle /\ UtilIdle

SpecDelta == InitDelta /\ [][NextDelta]_vars

InitDAISInit == GuideIdle /\ RSIdle /\ SDIdle /\ DLIdle /\ DAInit /\ UtilIdle

SpecDAISInit == InitDAISInit /\ [][NextDAISInit]_vars

Init == GuideInit /\ RSIdle /\ SDIdle /\ DLIdle /\ DAIdle /\ UtilIdle

Next == Call

Spec == Init /\ [][Next]_vars

InitEstimate == GuideIdle /\ RSIdle /\ SDIdle /\ DLIdle /\ DAIdle /\ CFIdle /\ EstimateInit

SpecEstimate == InitEstimate /\ [][NextEstimate]_vars

InitUtil == GuideIdle /\ RSIdle /\ SDIdle /\ DLIdle /\ DAIdle /\ UtilIdle

SpecUtil == InitUtil /\ [][NextUtil]_vars

InitNormal == GuideIdle /\ RSIdle /\ SDIdle /\ DLIdle /\ DAIdle /\ CFIdle /\ NormalInit

SpecNormal == InitNormal /\ [][NextNormal]_vars

InitPosterior == GuideIdle /\ RSIdle /\ SDIdle /\ DLIdle /\ DAIdle /\ CFIdle /\ PosteriorInit

SpecPosterior == InitPosterior /\ [][NextPosterior]_vars

InitUniform == GuideIdle /\ RSIdle /\ SDIdle /\ DLIdle /\ DAIdle /\ CFIdle /\ UniformInit

SpecUniform == InitUniform /\ [][NextUniform]_vars

InitQuantiles == GuideIdle /\ RSIdle /\ SDIdle /\ DLIdle /\ DAIdle /\ CFIdle /\ QuantilesInit

SpecQuantiles == InitQuantiles /\ [][NextQuantiles]_vars

InitDeclare == GuideIdle /\ RSIdle /\ SDIdle /\ DLIdle /\ DAIdle /\ CFIdle /\ DeclareInit

SpecDeclare == InitDeclare /\ [][NextDeclare]_vars

InitAdapt == GuideIdle /\ RSIdle /\ SDIdle /\ DLIdle /\ DAIdle /\ CFIdle /\ AdaptInit

SpecAdapt == InitAdapt /\ [][NextAdapt]_vars

InitRVRS == GuideIdle /\ RSIdle /\ SDIdle /\ DLIdle /\ DAIdle /\ CFIdle /\ RVRSInit

SpecRVRS == InitRVRS /\ [][NextRVRS]_vars

InitLocal == GuideIdle /\ RSIdle /\ SDIdle /\ DLIdle /\ DAIdle /\ CFIdle /\ LocalInit

SpecLocal == InitLocal /\ [][NextLocal]_vars

InitParams == GuideIdle /\ RSIdle /\ SDIdle /\ DLIdle /\ DAIdle /\ CFIdle /\ ParamsInit

SpecParams == InitParams /\ [][NextParams]_vars

InitLoo == GuideIdle /\ RSIdle /\ SDIdle /\ DLIdle /\ DAIdle /\ CFIdle /\ LooInit

SpecLoo == InitLoo /\ [][NextLoo]_vars

InitRavel == GuideIdle /\ RSIdle /\ SDIdle /\ DLIdle /\ DAIdle /\ CFIdle /\ RavelInit

SpecRavel == InitRavel /\ [][NextRavel]_vars

(***************************************************************************)
(* Properties of the guide instances.                                      *)
(***************************************************************************)
SampleFrames(tr) ==
    UNION { { tr[i].stack[k] : k \in 1..Len(tr[i].stack) } :
            i \in { j \in 1..Len(tr) : tr[j].type = "sample" } }

\* two sample sites hold frames with the same name but different dim or size
Inconsistent(tr) == \E f, h \in SampleFrames(tr) : f.name = h.name /\ f # h

IsDiscreteLatent(site) == IsLatent(site) /\ site.discrete

HasDiscreteLatent(tr) == \E i \in 1..Len(tr) : IsDiscreteLatent(tr[i])

\* the sites recorded before the first unobserved site with discrete support
BeforeDiscrete(tr) ==
    SubSeq(tr, 1, IF HasDiscreteLatent(tr)
                  THEN (CHOOSE i \in 1..Len(tr) :
                           /\ IsDiscreteLatent(tr[i])
                           /\ \A j \in 1..(i - 1) : ~IsDiscreteLatent(tr[j])) - 1
                  ELSE Len(tr))

\* each plate name mapped to the one frame the sample sites hold under it
FrameMap(tr) ==
    [n \in { f.name : f \in SampleFrames(tr) } |->
        CHOOSE f \in SampleFrames(tr) : f.name = n]

\* C1: when the first invocation of a guide succeeds, _setup_prototype has run
\* exactly once, during that first invocation, and no later invocation runs it.
C1_SetupRunsOnce ==
    first_outcome = "ok" =>
        /\ setup_runs = 1
        /\ prototype_trace # NoTrace
        /\ ran_setup <=> calls = 1

C1_Witness == calls = 2 /\ first_outcome = "ok" /\ ~ran_setup

C2_OriginalOn(tr) ==
    /\ Inconsistent(tr) => first_outcome = ErrInconsistent
    /\ ~Inconsistent(tr) =>
          /\ first_outcome # ErrInconsistent
          /\ prototype_frames = FrameMap(tr)

\* C2 as stated: two sample sites with frames of the same name but different
\* dim or size make setup raise the AssertionError, whatever else the trace
\* holds; equal frames raise no such error and _prototype_frames maps each
\* plate name to its frame.
C2_Original == calls >= 1 => C2_OriginalOn(TraceOf(model))

C2_AmendedOn(tr) ==
    /\ Inconsistent(BeforeDiscrete(tr)) => first_outcome = ErrInconsistent
    /\ ~Inconsistent(tr) => first_outcome # ErrInconsistent
    /\ (~Inconsistent(tr) /\ ~HasDiscreteLatent(tr)) =>
          prototype_frames = FrameMap(tr)

\* C2: two sample sites with frames of the same name but different dim or
\* size, both recorded before the first unobserved discrete-support site (if
\* any), make setup raise the AssertionError 'has inconsistent dim or size';
\* when all frames sharing a name are equal no such error is raised and, if
\* the trace has no unobserved discrete-support site, _prototype_frames maps
\* each plate name to its single frame.
C2_InconsistentFrames == calls >= 1 => C2_AmendedOn(TraceOf(model))

C2_Witness ==
    /\ calls >= 1
    /\ Inconsistent(TraceOf(model))
    /\ first_outcome = ErrInconsistent

\* C3: after the inconsistent-plate assertion the guide holds no prototype
\* trace, and every later invocation runs setup again and fails with the same
\* assertion.
C3_FailedSetupLeavesNone ==
    first_outcome = ErrInconsistent =>
        /\ prototype_trace = NoTrace
        /\ outcome = ErrInconsistent
        /\ calls > 1 => ran_setup

\* a subsampled plate that holds no unobserved sample site
SubsampledObservedOnly(tr) ==
    \E i \in 1..Len(tr) : IsSubsamplePlate(tr[i]) /\ LocalVars(tr, tr[i].name) = {}

\* some unobserved site lies in a frame whose size is not the size recorded
\* in full for the plate of that name
LatentInShrunkFrame(tr, full) ==
    \E i \in { j \in 1..Len(tr) : IsLatent(tr[j]) } :
       \E k \in 1..Len(tr[i].stack) :
          tr[i].stack[k].size # full[tr[i].stack[k].name]

\* the size each plate of the trace was declared with
DeclaredSizes(tr) ==
    [n \in { tr[i].name : i \in { j \in 1..Len(tr) : tr[j].type = "plate" } } |->
        (CHOOSE site \in { tr[i] : i \in 1..Len(tr) } :
            site.type = "plate" /\ site.name = n).args[1][1]]

\* nothing in the trace makes AutoContinuous._setup_prototype raise
ContinuousSetupPasses(tr) ==
    /\ ~HasDiscreteLatent(tr)
    /\ ~Inconsistent(tr)
    /\ \E i \in 1..Len(tr) : IsLatent(tr[i]) /\ tr[i].size > 0
    /\ ~LatentInShrunkFrame(tr, DeclaredSizes(tr))

C9_OriginalOn(tr) ==
    SubsampledObservedOnly(tr) =>
        /\ cls \in {"AutoDAIS", "AutoRVRS"} => first_outcome = ErrSubsampling
        /\ cls = "AutoSurrogateLikelihoodDAIS" => first_outcome # ErrSubsampling

\* C9 as stated: whenever the trace has a subsampled plate holding no
\* unobserved site, the first invocation of AutoDAIS and of AutoRVRS raises
\* the 'data subsampling' NotImplementedError, and that of
\* AutoSurrogateLikelihoodDAIS does not.
C9_Original == calls >= 1 => C9_OriginalOn(TraceOf(model))

C9_AmendedOn(tr) ==
    SubsampledObservedOnly(tr) =>
        /\ (cls \in {"AutoDAIS", "AutoRVRS"} /\ ContinuousSetupPasses(tr)) =>
              first_outcome = ErrSubsampling
        /\ cls = "AutoSurrogateLikelihoodDAIS" => first_outcome # ErrSubsampling

\* C9: when the trace has a subsampled plate holding no unobserved site and
\* AutoContinuous._setup_prototype itself raises nothing on it, the first
\* invocation of AutoDAIS and of AutoRVRS raises the 'data subsampling'
\* NotImplementedError; that of AutoSurrogateLikelihoodDAIS never raises it.
C9_SubsamplingRejected == calls >= 1 => C9_AmendedOn(TraceOf(model))

C9_Witness ==
    /\ calls >= 1
    /\ cls = "AutoRVRS"
    /\ SubsampledObservedOnly(TraceOf(model))
    /\ first_outcome = ErrSubsampling

ContinuousClasses == {"AutoDiagonalNormal", "AutoDAIS",
                      "AutoSurrogateLikelihoodDAIS", "AutoRVRS"}

\* C10: once AutoContinuous._setup_prototype has flattened the latent, it
\* raises the RuntimeError 'found no latent variables' when latent_dim is 0
\* (even if an unobserved site lies in a shrunk frame: that check comes
\* second); otherwise it raises the ValueError 'does not support local latent
\* variables' exactly when some unobserved site lies in a frame whose size
\* differs from the recorded full size, so a subsampled plate holding only
\* observed sites is not rejected by it.
C10_ContinuousChecks ==
    (calls >= 1 /\ cls \in ContinuousClasses /\ "_init_latent" \in attrs) =>
        /\ latent_dim = 0 => first_outcome = ErrNoLatent
        /\ latent_dim # 0 =>
              (first_outcome = ErrLocalLatent
                 <=> LatentInShrunkFrame(prototype_trace, frame_full_sizes))
        /\ (latent_dim # 0 /\ SubsampledObservedOnly(prototype_trace)
              /\ ~LatentInShrunkFrame(prototype_trace, frame_full_sizes)) =>
              /\ first_outcome \notin {ErrNoLatent, ErrLocalLatent}
              /\ cls = "AutoDiagonalNormal" => first_outcome = "ok"

C10_Witness ==
    /\ calls >= 1
    /\ cls = "AutoDiagonalNormal"
    /\ "_init_latent" \in attrs
    /\ latent_dim = 0
    /\ LatentInShrunkFrame(prototype_trace, frame_full_sizes)
    /\ first_outcome = ErrNoLatent


\* the plates of the trace with an integer subsample size below the full size
SubsampledPlateSites(tr) ==
    { i \in 1..Len(tr) :
        /\ tr[i].type = "plate"
        /\ Len(tr[i].args[2]) = 1
        /\ tr[i].args[2][1] < tr[i].args[1][1] }

\* some unobserved sample site lies inside the plate recorded at index i
HoldsLatent(tr, i) ==
    \E j \in 1..Len(tr) :
       /\ tr[j].type = "sample" /\ ~tr[j].is_observed
       /\ \E k \in 1..Len(tr[j].stack) : tr[j].stack[k].name = tr[i].name

\* AutoGuide._setup_prototype raises nothing on the trace
BaseSetupPasses(tr) == ~HasDiscreteLatent(tr) /\ ~Inconsistent(tr)

C11_OriginalOn(tr) ==
    /\ Cardinality(SubsampledPlateSites(tr)) # 1 => first_outcome = ErrOnePlate
    /\ (Cardinality(SubsampledPlateSites(tr)) = 1
          /\ \A i \in SubsampledPlateSites(tr) : ~HoldsLatent(tr, i)) =>
          first_outcome = ErrNoLocal

\* C11 as stated: setup of AutoSemiDAIS raises the 'contains exactly 1 plate'
\* AssertionError whenever the trace does not hold exactly one subsampled
\* plate, and the 'are no local variables' RuntimeError whenever it holds
\* one with no unobserved site inside.
C11_Original == (calls >= 1 /\ cls = "AutoSemiDAIS") => C11_OriginalOn(TraceOf(model))

C11_AmendedOn(tr) ==
    BaseSetupPasses(tr) =>
        /\ C11_OriginalOn(tr)
        /\ (Cardinality(SubsampledPlateSites(tr)) = 1
              /\ \E i \in SubsampledPlateSites(tr) : HoldsLatent(tr, i)) =>
              first_outcome \notin {ErrOnePlate, ErrNoLocal}

\* C11: once AutoGuide._setup_prototype has returned without error, setup
\* of AutoSemiDAIS raises the 'contains exactly 1 plate' AssertionError when
\* the trace holds 0 or at least 2 subsampled plates (whether or not they
\* hold unobserved sites: this check comes first), the 'are no local
\* variables' RuntimeError when it holds exactly one and no unobserved site
\* lies inside it, and neither error otherwise.
C11_SemiPlateChecks == (calls >= 1 /\ cls = "AutoSemiDAIS") => C11_AmendedOn(TraceOf(model))

C11_Witness ==
    /\ calls >= 1
    /\ cls = "AutoSemiDAIS"
    /\ Cardinality(SubsampledPlateSites(TraceOf(model))) = 2
    /\ \A i \in SubsampledPlateSites(TraceOf(model)) : ~HoldsLatent(TraceOf(model), i)
    /\ first_outcome = ErrOnePlate

(***************************************************************************)
(* Properties of the rejection samplers.                                   *)
(***************************************************************************)
Rows(buf) == { buf[i] : i \in 1..Len(buf) }

AcceptedRows(buf) == { r \in Rows(buf) : r.acc }

\* C4: in _rs_impl the buffer holds exactly S entries in every loop state;
\* an iteration runs only while fewer than S entries are accepted and leaves
\* min(S, accepted before + newly accepted) accepted entries, never fewer
\* than before; while the buffer holds a rejected entry no accepted entry,
\* old or new, was dropped; and the loop returns only with S accepted
\* entries, each a drawn proposal with log_u < accept_log_prob.
C4_BufferInvariant ==
    rs_kind = "batch" =>
        /\ Len(rs_buffer) = rs_S
        /\ Rows(rs_buffer) \subseteq
              Rows(rs_prev.buffer) \cup Rows(rs_prev.cand)
              \cup { Proposal(FALSE, 0, k) : k \in 1..rs_S }
        /\ rs_num_samples > 0 =>
              /\ AcceptedCount(rs_prev.buffer) < rs_S
              /\ AcceptedCount(rs_buffer) =
                    Min(rs_S, AcceptedCount(rs_prev.buffer) + AcceptedCount(rs_prev.cand))
              /\ AcceptedCount(rs_buffer) >= AcceptedCount(rs_prev.buffer)
              /\ (\E r \in Rows(rs_buffer) : ~r.acc) =>
                    AcceptedRows(rs_prev.buffer) \cup AcceptedRows(rs_prev.cand)
                        \subseteq Rows(rs_buffer)
        /\ rs_pc = "loop" => (ENABLED LoopExit <=> AcceptedCount(rs_buffer) = rs_S)
        /\ rs_pc = "returned" =>
              \A r \in Rows(rs_buffer) : r.acc /\ r.iter >= 1

C4_Witness ==
    /\ rs_kind = "batch"
    /\ rs_pc = "returned"
    /\ rs_S >= 2
    /\ rs_num_samples >= 2
    /\ AcceptedCount(rs_prev.buffer) + AcceptedCount(rs_prev.cand) > rs_S

\* C5: under the fairness assumption that a proposal is eventually accepted
\* while proposals keep being drawn, the loops of rejection_sampler and of
\* the batched sampler eventually return; in every behaviour they have not
\* returned while no proposal was accepted, nor before one (rejection_sampler)
\* respectively S (batched) accepted proposals were drawn.
C5_Termination ==
    /\ <>(rs_pc = "returned")
    /\ [](rs_drawn = 0 => rs_pc # "returned")
    /\ [](rs_pc = "returned" => rs_drawn >= rs_S)

C5_Witness ==
    /\ rs_pc = "returned"
    /\ rs_num_samples >= 2
    /\ rs_drawn = rs_S


(***************************************************************************)
(* Properties of AutoSemiDAIS.sample_posterior.                            *)
(***************************************************************************)
\* the positions up to which the two index vectors agree
SharedPrefix(a, b) ==
    { p \in 1..Len(a) : \A q \in 1..p : a[q] = b[q] }

BothDone == Len(sd_run) = 2 /\ sd_run[1].pc = "done" /\ sd_run[2].pc = "done"

\* C6: two runs of sample_posterior with the same rng_key and params under
\* index vectors of equal length return the same global latent, and the same
\* local latent at every position of the prefix the vectors share (indeed
\* at every position where the two vectors hold the same index).
C6_SharedPrefixAgrees ==
    BothDone =>
        /\ sd_run[1].theta = sd_run[2].theta
        /\ \A p \in SharedPrefix(sd_idx[1], sd_idx[2]) :
               sd_run[1].tau[p] = sd_run[2].tau[p]
        /\ \A p \in 1..SemiL :
               sd_idx[1][p] = sd_idx[2][p] => sd_run[1].tau[p] = sd_run[2].tau[p]

C6_Witness ==
    /\ BothDone
    /\ SharedPrefix(sd_idx[1], sd_idx[2]) = {1}
    /\ sd_run[1].tau[1] = sd_run[2].tau[1]
    /\ sd_run[1].tau[SemiL] # sd_run[2].tau[SemiL]


(***************************************************************************)
(* Properties of AutoDelta.sample_posterior.                               *)
(***************************************************************************)
\* the b-th slice of a along leading axes of total size Prod(s), n values each
SliceOf(a, b, n) == SubSeq(a.data, (b - 1) * n + 1, b * n)

LeadingShape(a, s) == Len(a.shape) >= Len(s) /\ SubSeq(a.shape, 1, Len(s)) = s

\* C7: sample_posterior returns, for every latent site, an array of shape
\* sample_shape + shape(loc) whose every slice along the sample axes is the
\* site's '{site}_{prefix}_loc' parameter, and the dict holds exactly the
\* latent sites and the deterministic sites of the prototype trace, these
\* also with leading shape sample_shape.
C7_DeltaPosterior ==
    dl_pc = "returned" =>
        /\ DOMAIN dl_result = dl_init_locs \cup dl_deterministic
        /\ \A k \in dl_init_locs :
              /\ dl_result[k].shape = dl_sample_shape \o dl_params[LocName(k, "auto")].shape
              /\ Len(dl_result[k].data) = Prod(dl_result[k].shape)
              /\ \A b \in 1..Prod(dl_sample_shape) :
                    SliceOf(dl_result[k], b, Len(dl_params[LocName(k, "auto")].data))
                        = dl_params[LocName(k, "auto")].data
        /\ \A d \in dl_deterministic : LeadingShape(dl_result[d], dl_sample_shape)

C7_Witness ==
    /\ dl_pc = "returned"
    /\ dl_sample_shape = <<2, 3>>
    /\ dl_deterministic = {"x2"}
    /\ dl_params[LocName("x", "auto")].data = <<0, 2>>
    /\ "x2" \in DOMAIN dl_result

(***************************************************************************)
(* Properties of the AutoDAIS constructor.                                 *)
(***************************************************************************)
FloatLt(a, b) == ~a.nan /\ ~b.nan /\ a.v < b.v

\* K >= 1, base_dist known, 0 < eta_init < eta_max, 0 < gamma_init < 1,
\* init_scale > 0
ArgsValid(a) ==
    /\ a.K >= 1
    /\ a.base_dist \in {"diagonal", "cholesky"}
    /\ FloatLt(Fl(0), a.eta_init) /\ FloatLt(a.eta_init, a.eta_max)
    /\ FloatLt(Fl(0), a.gamma_init) /\ FloatLt(a.gamma_init, Fl(100))
    /\ FloatLt(Fl(0), a.init_scale)

\* C8: the constructor succeeds if and only if K >= 1, base_dist is
\* 'diagonal' or 'cholesky', 0 < eta_init < eta_max, 0 < gamma_init < 1 and
\* init_scale > 0; every other combination raises ValueError before any
\* attribute is set.
C8_AcceptedIffValid ==
    da_outcome \notin {"idle", "pending"} =>
        /\ da_outcome = "ok" <=> ArgsValid(da_args)
        /\ da_outcome # "ok" => (da_outcome = ErrValue /\ da_attrs = {})

(***************************************************************************)
(* Properties of median and quantiles                                      *)
(***************************************************************************)
NoEstimateClasses == { "AutoIAFNormal", "AutoBNAFNormal", "AutoDAIS",
                       "AutoSurrogateLikelihoodDAIS", "AutoSemiDAIS", "AutoRVRS",
                       "AutoSemiRVRS" }

EstimateDone == fn_pc = "returned" /\ fn_name \in { "median", "quantiles" }

\* C12: median and quantiles of AutoIAFNormal, AutoBNAFNormal, AutoDAIS,
\* AutoSurrogateLikelihoodDAIS, AutoSemiDAIS, AutoRVRS and AutoSemiRVRS raise
\* NotImplementedError and return no value; so does AutoDelta.quantiles, while
\* AutoDelta.median returns the location parameter of every latent site.
C12_Estimates ==
    EstimateDone =>
        /\ (fn_args.cls \in NoEstimateClasses
               \/ (fn_args.cls = "AutoDelta" /\ fn_name = "quantiles"))
           => /\ fn_result.raised = ErrNotImplemented
              /\ ~fn_result.returned
              /\ fn_result.value = EmptyMap
        /\ (fn_args.cls = "AutoDelta" /\ fn_name = "median")
           => /\ fn_result.raised = NoErr
              /\ fn_result.returned
              /\ DOMAIN fn_result.value = fn_args.init_locs
              /\ \A k \in fn_args.init_locs :
                     fn_result.value[k] = fn_args.params[k \o "_auto_loc"]

C12_Witness ==
    /\ EstimateDone
    /\ fn_name = "quantiles"
    /\ fn_args.cls = "AutoIAFNormal"
    /\ fn_args.init_locs = {"x", "y"}
    /\ fn_result.raised = ErrNotImplemented

(***************************************************************************)
(* Properties of numpyro/util.py.                                          *)
(***************************************************************************)
\* C13: however the with control_flow_prims_disabled() blocks are nested and
\* however each is left, the flag is True inside every open block, a block
\* that was left put the flag back to its value at the block's entry, and
\* with no block open the flag is False.
C13_FlagRestored ==
    /\ cf_blocks # <<>> => DISABLE_CONTROL_FLOW_PRIM
    /\ cf_left.how # "none" => cf_left.after = cf_left.entry
    /\ cf_blocks = <<>> => ~DISABLE_CONTROL_FLOW_PRIM

C13_Witness ==
    /\ Len(cf_blocks) = 1
    /\ cf_left.how = "exception"
    /\ cf_left.entry
    /\ DISABLE_CONTROL_FLOW_PRIM

Called(name) == fn_pc = "returned" /\ fn_name = name

\* C14: each of cond, while_loop and fori_loop returns the same on the Python
\* path and on the jax.lax path: cond applies true_fun to true_operand when
\* pred holds and false_fun to false_operand otherwise, while_loop returns the
\* first iterate of body_fun that fails cond_fun, fori_loop applies body_fun
\* for the indices lower .. upper - 1 in ascending order and returns init_val
\* when upper <= lower.
C14_FallbacksAgree ==
    /\ Called("cond") =>
          /\ fn_result.value = cond(fn_args, ~fn_result.disabled)
          /\ fn_args.pred =>
                 fn_result.value = Apply1(fn_args.true_fun, fn_args.true_operand)
          /\ ~fn_args.pred =>
                 fn_result.value = Apply1(fn_args.false_fun, fn_args.false_operand)
    /\ Called("while_loop") =>
          /\ fn_result.value = while_loop(fn_args, ~fn_result.disabled)
          /\ ~Test(fn_args.cond_fun, fn_result.value)
          /\ \E n \in 0..(MaxOperand + 2) :
                 /\ fn_result.value = Iterate(fn_args.body_fun, n, fn_args.init_val)
                 /\ \A m \in 0..(n - 1) :
                        Test(fn_args.cond_fun,
                             Iterate(fn_args.body_fun, m, fn_args.init_val))
    /\ Called("fori_loop") =>
          /\ fn_result.value = fori_loop(fn_args, ~fn_result.disabled)
          /\ fn_args.upper <= fn_args.lower => fn_result.value = fn_args.init_val
          /\ fn_args.upper = fn_args.lower + 2 =>
                 fn_result.value =
                     Apply2(fn_args.body_fun, fn_args.lower + 1,
                            Apply2(fn_args.body_fun, fn_args.lower, fn_args.init_val))

C14_Witness ==
    /\ Called("fori_loop")
    /\ fn_result.disabled
    /\ fn_args.body_fun.tag = "horner"
    /\ fn_args.lower = 1
    /\ fn_args.upper = 3
    /\ fn_args.init_val = 1
    /\ fn_result.value = 8

\* C15: with the primitives disabled scan(f, a, bs) returns what jax.lax.scan
\* returns: the carries a_1 .. a_n with a_(i+1) = f(a_i, b_i), where b_i runs
\* over the slices of bs in order.
C15_ScanThreadsCarry ==
    Called("scan") => fn_result.value = LaxScan(fn_args.f, fn_args.a, fn_args.bs)

\* the carry after i steps of f over bs
RECURSIVE Carry(_, _)
Carry(a, i) ==
    IF i = 0 THEN a.a ELSE StepOf(a.f, Carry(a, i - 1), Slice(a.bs, i - 1))

\* C16: tscan returns one entry per field of the carry; a selected field holds
\* the sequence, as long as bs, whose i-th entry is that field of the carry
\* after step i, the carry being threaded from step to step; every other field
\* is None; and the Python path and the primitive return the same.
C16_TscanFields ==
    Called("tscan") =>
        /\ fn_result.value = tscan(fn_args, ~fn_result.disabled)
        /\ Len(fn_result.value) = Len(fn_args.a)
        /\ \A j \in 1..Len(fn_args.a) :
              IF \E n \in 1..Len(fn_args.fields) : fn_args.fields[n] = j - 1
              THEN /\ ~fn_result.value[j].is_none
                   /\ Len(fn_result.value[j].val) = Len(fn_args.bs[1])
                   /\ \A i \in 1..Len(fn_args.bs[1]) :
                          fn_result.value[j].val[i] = Carry(fn_args, i)[j]
              ELSE fn_result.value[j].is_none

C16_Witness ==
    /\ Called("tscan")
    /\ fn_result.disabled
    /\ fn_args.f = "acc"
    /\ fn_args.fields = <<1>>
    /\ fn_args.a = <<1, 0>>
    /\ fn_args.bs = << <<1, 1>> >>
    /\ fn_result.value[1].is_none
    /\ fn_result.value[2].val = <<1, 3>>

(***************************************************************************)
(* Properties of AutoNormal.__call__ and AutoGuide._create_plates.         *)
(***************************************************************************)
NormalDone == fn_pc = "returned" /\ fn_name = "AutoNormal.__call__"

\* the param and sample statements among the events of site s
EmittedBy(s) ==
    SelectSeq(fn_result.events,
              LAMBDA e : e.site = s /\ e.op \in {"param", "sample"})

SiteIndex(tr, s) == CHOOSE i \in 1..Len(tr) : tr[i].name = s

\* the events of one call, tr being the prototype trace
C17_OnTrace(tr) ==
    /\ \A n \in 1..Len(fn_result.events) :
          LET e == fn_result.events[n] IN
          \* only unobserved sample sites emit
          /\ \E i \in 1..Len(tr) : IsLatent(tr[i]) /\ tr[i].name = e.site
          \* in the order of the trace
          /\ \A m \in 1..(n - 1) :
                SiteIndex(tr, fn_result.events[m].site) <= SiteIndex(tr, e.site)
          \* params and sample inside exactly the plates of cond_indep_stack
          /\ e.op \in {"param", "sample"} =>
                e.open = [k \in 1..Len(tr[SiteIndex(tr, e.site)].stack) |->
                             tr[SiteIndex(tr, e.site)].stack[k].name]
          /\ e.op = "enter" => e.plate = fn_result.plates[e.name]
          \* every plate exited before the next site starts
          /\ (n > 1 /\ fn_result.events[n - 1].site # e.site) =>
                fn_result.events[n - 1].open = <<>>
          /\ n = Len(fn_result.events) => e.open = <<>>
    /\ \A i \in 1..Len(tr) :
          LET s == tr[i].name IN
          \/ EmittedBy(s) = <<>> /\ s \notin { fn_result.keys[k] : k \in 1..Len(fn_result.keys) }
          \/ /\ [k \in 1..Len(EmittedBy(s)) |->
                   <<EmittedBy(s)[k].op, EmittedBy(s)[k].name>>]
                 = << <<"param", s \o "_auto_loc">>, <<"param", s \o "_auto_scale">>,
                      <<"sample", s>> >>
             /\ s \in { fn_result.keys[k] : k \in 1..Len(fn_result.keys) }
          \/ /\ fn_result.raised = ErrSample
             /\ [k \in 1..Len(EmittedBy(s)) |->
                   <<EmittedBy(s)[k].op, EmittedBy(s)[k].name>>]
                 = << <<"param", s \o "_auto_loc">>, <<"param", s \o "_auto_scale">> >>
             /\ s = fn_result.events[Len(fn_result.events)].site
             /\ s \notin { fn_result.keys[k] : k \in 1..Len(fn_result.keys) }
    \* a site is complete once a later site has started
    /\ \A i \in 1..Len(tr) :
          (IsLatent(tr[i]) /\ \E n \in 1..Len(fn_result.events) :
                                 SiteIndex(tr, fn_result.events[n].site) > i)
          => Len(EmittedBy(tr[i].name)) = 3
    /\ fn_result.returned =>
          /\ { fn_result.keys[k] : k \in 1..Len(fn_result.keys) } = LatentNames(tr)
          /\ Len(fn_result.keys) = Cardinality(LatentNames(tr))

\* C17: one AutoNormal.__call__ handles the unobserved sample sites in the
\* order of the prototype trace; each emits exactly its loc param, its scale
\* param and one sample statement of the site's name, inside exactly the
\* plates of its cond_indep_stack, which are all exited before the next site
\* and when the body raises; no other site emits anything; the returned dict
\* has exactly the unobserved sample sites as keys.
C17_NormalCall ==
    (NormalDone /\ fn_result.guide.err = NoErr) => C17_OnTrace(fn_result.guide.trace)

C17_Witness ==
    /\ NormalDone
    /\ fn_result.returned
    /\ Len(fn_result.keys) = 2
    /\ Len(fn_result.events) = 12
    /\ \E n \in 1..Len(fn_result.events) :
          fn_result.events[n].op = "sample" /\ Len(fn_result.events[n].open) = 2

CreatePlatesReturned ==
    /\ NormalDone
    /\ fn_result.guide.err = NoErr
    /\ fn_result.raised \notin {ErrNonPlate, ErrFullSize}

\* C18: after _create_plates, self.plates has an entry for every name of
\* _prototype_frames; the plates the callback returned (one plate counting as
\* a list of one) are used as they are, and a returned element that is no plate
\* raises AssertionError; every frame the callback does not cover gets
\* plate(name, recorded full size, dim=frame.dim, subsample_size=frame.size);
\* without a callback every plate is created that way.
C18_CreatePlates ==
    /\ (NormalDone /\ fn_result.guide.err = NoErr) =>
          /\ (\E i \in 1..Len(fn_args.create_plates.returns.items) :
                 ~fn_args.create_plates.returns.items[i].is_plate)
             <=> fn_result.raised = ErrNonPlate
          /\ fn_result.raised # ErrFullSize
    /\ CreatePlatesReturned =>
          LET user == fn_args.create_plates.returns.items
              g == fn_result.guide
          IN
          /\ DOMAIN g.frames \subseteq DOMAIN fn_result.plates
          /\ \A i \in 1..Len(user) : fn_result.plates[user[i].name] = user[i]
          /\ \A name \in DOMAIN g.frames :
                (\A i \in 1..Len(user) : user[i].name # name) =>
                    fn_result.plates[name] =
                        [is_plate |-> TRUE, name |-> name, size |-> g.full[name],
                         dim |-> g.frames[name].dim,
                         sub |-> IntOf(g.frames[name].size), by |-> "auto"]
          /\ fn_args.create_plates.is_none =>
                /\ DOMAIN fn_result.plates = DOMAIN g.frames
                /\ \A name \in DOMAIN g.frames : fn_result.plates[name].by = "auto"

C18_Witness ==
    /\ CreatePlatesReturned
    /\ ~fn_args.create_plates.is_none
    /\ DOMAIN fn_result.guide.frames = {"a", "b"}
    /\ DOMAIN fn_result.plates = {"a", "b", "c"}
    /\ fn_result.plates["a"].by = "auto"
    /\ fn_result.plates["b"].by = "user"

(***************************************************************************)
(* Properties of the flow guides.                                          *)
(***************************************************************************)
PosteriorDone == fn_pc = "returned" /\ fn_name = "_get_posterior"

IsFlow(t) == t.kind \in {"InverseAutoregressiveTransform",
                         "BlockNeuralAutoregressiveTransform"}

\* the list holds 2n-1 transforms: flow i at place 2i+1 (counted from 1),
\* registered as '{prefix}_arn__{i}', a reversing permutation right before
\* every flow but the first, BNAF residuals gated except in the last flow
FlowListOf(a, flows) ==
    /\ Len(flows) = 2 * a.num_flows - 1
    /\ \A i \in 0..(a.num_flows - 1) :
          /\ IsFlow(flows[2 * i + 1])
          /\ flows[2 * i + 1].module = a.prefix \o "_arn__" \o ToString(i)
          /\ i > 0 =>
                /\ flows[2 * i].kind = "PermuteTransform"
                /\ flows[2 * i].permutation = [k \in 1..a.latent_dim |-> a.latent_dim - k]
          /\ a.cls = "AutoBNAFNormal" =>
                flows[2 * i + 1].residual = (IF i < a.num_flows - 1 THEN "gated" ELSE "None")

RaisesForDimOne ==
    (PosteriorDone /\ fn_args.latent_dim = 1) =>
        fn_result.raised = ErrLatentDimOne /\ fn_result.flows = <<>>

\* C19 as stated: for every num_flows = n the list has length 2n-1, with the
\* flows, permutations and residuals placed as above, and latent_dim == 1
\* raises ValueError without building a flow.
C19_Original ==
    /\ RaisesForDimOne
    /\ (PosteriorDone /\ fn_args.latent_dim # 1) =>
          fn_result.raised = NoErr /\ FlowListOf(fn_args, fn_result.flows)

\* C19: for num_flows = n >= 1 and latent_dim > 1 the list has length 2n-1,
\* flow i is registered as '{prefix}_arn__{i}', a reversing PermuteTransform
\* stands right before every flow i > 0 and none before flow 0, the BNAF
\* residual is 'gated' for i < n-1 and None for the last flow; for n = 0 the
\* list is empty; latent_dim == 1 raises ValueError without building a flow.
C19_FlowList ==
    /\ RaisesForDimOne
    /\ (PosteriorDone /\ fn_args.latent_dim # 1) =>
          /\ fn_result.raised = NoErr
          /\ fn_args.num_flows >= 1 => FlowListOf(fn_args, fn_result.flows)
          /\ fn_args.num_flows = 0 => fn_result.flows = <<>>

C19_Witness ==
    /\ PosteriorDone
    /\ fn_args.cls = "AutoBNAFNormal"
    /\ fn_args.num_flows = 3
    /\ fn_args.latent_dim = 2
    /\ Len(fn_result.flows) = 5
    /\ fn_result.flows[4].permutation = <<1, 0>>
    /\ fn_result.flows[5].module = "auto_arn__2"
    /\ fn_result.flows[5].residual = "None"
    /\ fn_result.flows[3].residual = "gated"

(***************************************************************************)
(* Properties of the legacy Uniform distribution.                          *)
(***************************************************************************)
\* C20: for Uniform(low, high) with low < high and every value x, x satisfies
\* the support constraint exactly when log_prob(x) is finite, which is exactly
\* when low <= x < high; outside that interval log_prob(x) is -infinity.
C20_SupportAgrees ==
    (fn_pc = "returned" /\ fn_name = "Uniform" /\ fn_args.low < fn_args.high) =>
        /\ fn_result.in_support <=> fn_result.log_prob.kind = "finite"
        /\ fn_result.in_support <=>
              (fn_args.low <= fn_args.value /\ fn_args.value < fn_args.high)
        /\ ~(fn_args.low <= fn_args.value /\ fn_args.value < fn_args.high) =>
              fn_result.log_prob.kind = "-inf"

(***************************************************************************)
(* Properties of quantiles.                                                *)
(***************************************************************************)
\* C21: quantiles(params, qs) of AutoLaplaceApproximation, AutoDiagonalNormal,
\* AutoMultivariateNormal, AutoLowRankMultivariateNormal and AutoNormal does
\* not raise and returns for every latent site an array of shape
\* (len(qs),) + the site's shape.
C21_QuantilesReturn ==
    (fn_pc = "returned" /\ fn_name = "quantiles_shapes") =>
        /\ fn_result.raised = NoErr
        /\ DOMAIN fn_result.shapes = DOMAIN fn_args.shapes
        /\ \A k \in DOMAIN fn_args.shapes :
              fn_result.shapes[k] = <<Len(fn_args.quantiles)>> \o fn_args.shapes[k]

\* ---------------------------------------------------------------------
\* Properties of the parameters the annealed guides declare
\* ---------------------------------------------------------------------

\* C22: AutoSemiDAIS initialises '{prefix}_gamma' to the constructor
\* argument gamma_init for each of the N units, the way '{prefix}_eta0'
\* is initialised to eta_init.
C22_GammaInit ==
    (fn_pc = "returned" /\ fn_name = "AutoSemiDAIS") =>
        /\ ParamNamed(fn_result, fn_args.prefix \o "_gamma").fill = fn_args.gamma_init
        /\ ParamNamed(fn_result, fn_args.prefix \o "_gamma").shape = <<fn_args.N>>
        /\ ParamNamed(fn_result, fn_args.prefix \o "_eta0").fill = fn_args.eta_init
        /\ ParamNamed(fn_result, fn_args.prefix \o "_eta0").shape = <<fn_args.N>>

\* C28: for the same base_dist AutoSurrogateLikelihoodDAIS declares exactly
\* the parameter names AutoDAIS declares: eta0, eta_coeff, gamma,
\* beta_increments, mass_matrix, z_0_loc and z_0_scale (diagonal) or
\* z_0_scale_tril (cholesky), each prefixed.
C28_SameParamNames ==
    (fn_pc = "returned" /\ fn_name = "AutoSurrogateLikelihoodDAIS") =>
        /\ ParamNames(fn_result) = ParamNames(AutoDAIS_sample_latent(fn_args))
        /\ ParamNames(fn_result) =
              { fn_args.prefix \o s :
                  s \in {"_eta0", "_eta_coeff", "_gamma", "_beta_increments",
                         "_mass_matrix", "_z_0_loc",
                         IF fn_args.base_dist = "diagonal" THEN "_z_0_scale"
                                                           ELSE "_z_0_scale_tril"} }

(***************************************************************************)
(* Which rows the merge of the batched rejection sampler keeps.            *)
(***************************************************************************)
\* the accepted candidates in the lanes above k
AcceptedAbove(cand, k) == Cardinality({ j \in DOMAIN cand : j > k /\ cand[j].acc })

\* every buffered row was drawn before the candidates of the last iteration
CandidatesAreNew == \A r \in Rows(rs_prev.buffer) : r.iter < rs_num_samples

\* C23 (as amended): when the S candidates are merged with the size-S
\* buffer, every accepted entry buffered earlier is kept; the places left
\* are filled with newly accepted candidates, those of the highest lanes
\* when more were accepted than places are left; a rejected entry is kept
\* only while fewer than S accepted entries exist.
C23_BufferedTakePrecedence ==
    (rs_kind = "batch" /\ rs_num_samples > 0) =>
        /\ AcceptedRows(rs_prev.buffer) \subseteq Rows(rs_buffer)
        /\ CandidatesAreNew =>
              \A k \in DOMAIN rs_prev.cand :
                  rs_prev.cand[k].acc =>
                      (rs_prev.cand[k] \in Rows(rs_buffer) <=>
                          AcceptedAbove(rs_prev.cand, k)
                              < rs_S - AcceptedCount(rs_prev.buffer))
        /\ (\E r \in Rows(rs_buffer) : ~r.acc) =>
              AcceptedCount(rs_prev.buffer) + AcceptedCount(rs_prev.cand) < rs_S

C23_Witness ==
    /\ rs_kind = "batch"
    /\ rs_num_samples >= 2
    /\ CandidatesAreNew
    /\ AcceptedCount(rs_prev.buffer) >= 1
    /\ AcceptedRows(rs_prev.buffer) \subseteq Rows(rs_buffer)
    /\ \E r \in AcceptedRows(rs_prev.cand) : r \notin Rows(rs_buffer)

\* C23 as stated: the S kept are the S most recently accepted, newly
\* accepted candidates taking precedence over accepted entries buffered
\* earlier; rejected entries are kept only while fewer than S accepted exist.
C23_Original ==
    (rs_kind = "batch" /\ rs_num_samples > 0) =>
        /\ AcceptedRows(rs_prev.cand) \subseteq Rows(rs_buffer)
        /\ (\E r \in Rows(rs_buffer) : ~r.acc) =>
              AcceptedCount(rs_prev.buffer) + AcceptedCount(rs_prev.cand) < rs_S

(***************************************************************************)
(* Properties of temperature_adapter.                                      *)
(***************************************************************************)
\* the steps at which a window ends: 24, 74, 174, ...
WindowEnds == { init_window_size * (Pow2(w + 1) - 1) - 1 : w \in 0..6 }

\* the step of the last update and whether it closed a window
LastT == fn_args.t - 1

\* C24: with update_fn called at t = 0, 1, 2, ..., window_idx never decreases
\* and grows by exactly one exactly at t = 25*(2^(w+1)-1)-1 (24, 74, 174, ..),
\* so that window w spans 25*2^w steps; exactly at those steps the
\* dual-averaging state is re-initialised from the negated current
\* temperature and at every other step it is the result of the update; the
\* temperature reported is the negated running average only at
\* t = num_adapt_steps - 1 and the negated current iterate otherwise.
C24_WindowSchedule ==
    (fn_name = "temperature_adapter" /\ fn_args.t > 0) =>
        /\ fn_result.state.window_idx =
              fn_result.prev.window_idx + (IF LastT \in WindowEnds THEN 1 ELSE 0)
        /\ fn_result.state.window_idx = Cardinality({ e \in WindowEnds : e <= LastT })
        /\ \A w \in 0..6 :
              fn_result.state.window_idx = w =>
                  /\ fn_args.t >= init_window_size * (Pow2(w) - 1)
                  /\ fn_args.t < init_window_size * (Pow2(w) - 1) + init_window_size * Pow2(w)
        /\ fn_result.state.da_state =
              IF LastT \in WindowEnds
              THEN da_init(Neg(fn_result.state.temperature))
              ELSE da_update(target_accept_prob - fn_args.accept_prob,
                             fn_result.prev.da_state)
        /\ fn_result.state.temperature =
              IF fn_args.num_adapt_steps.finite /\ LastT = fn_args.num_adapt_steps.n - 1
              THEN Neg(RunningAverage(da_update(target_accept_prob - fn_args.accept_prob,
                                         fn_result.prev.da_state)))
              ELSE Neg(CurrentIterate(da_update(target_accept_prob - fn_args.accept_prob,
                                         fn_result.prev.da_state)))

C24_Witness ==
    /\ fn_name = "temperature_adapter"
    /\ LastT = 74
    /\ fn_args.num_adapt_steps = Finite(75)
    /\ fn_result.state.window_idx = 2
    /\ fn_result.state.da_state.t = 0
    /\ fn_result.state.temperature = Neg(RunningAverage(da_update(target_accept_prob - fn_args.accept_prob, fn_result.prev.da_state)))

(***************************************************************************)
(* Properties of the temperature adaptation of AutoRVRS.                   *)
(***************************************************************************)
IsNegatedAverage(x) == Len(x) >= 2 /\ x[1] = "-" /\ x[2] = "x_avg"

\* every invocation changes the counter by exactly one
RVRSCounterStepsByOne ==
    [][fn_name = "AutoRVRS" => fn_result'.num_updates = fn_result.num_updates + 1]_vars

\* C25 (as amended): with the dual-averaging scheme and a finite
\* num_warmup = W, every invocation increments '_num_updates' exactly once;
\* '_T_adapt' is updated by the adapter, with t the incremented counter, only
\* in the invocations where that value is below W and is unchanged in all
\* later ones; for W >= 2 the temperature used after warm-up is the negated
\* running average of the step t = W - 1, and for W <= 1 the adapter never
\* runs and the temperature stays the initial T.
C25_WarmupAdaptation ==
    (fn_name = "AutoRVRS" /\ fn_result.num_updates > 0) =>
        /\ fn_result.T_adapt =
              IF fn_result.num_updates < fn_args.num_warmup.n
              THEN update_fn(fn_args.num_warmup, fn_result.num_updates,
                             fn_args.Z, fn_result.prev)
              ELSE fn_result.prev
        /\ fn_result.T = fn_result.prev.temperature
        /\ (fn_args.num_warmup.n >= 2 /\ fn_result.num_updates = fn_args.num_warmup.n - 1) =>
              fn_result.T_adapt.temperature =
                  Neg(RunningAverage(da_update(target_accept_prob - fn_args.Z,
                                               fn_result.prev.da_state)))
        /\ (fn_args.num_warmup.n >= 2 /\ fn_result.num_updates >= fn_args.num_warmup.n - 1) =>
              IsNegatedAverage(fn_result.T_adapt.temperature)
        /\ fn_args.num_warmup.n <= 1 => fn_result.T_adapt = TempInit(<<"T">>)

C25_Witness ==
    /\ fn_name = "AutoRVRS"
    /\ fn_args.num_warmup = Finite(26)
    /\ fn_result.num_updates = MaxUpdates
    /\ fn_result.T_adapt = fn_result.prev
    /\ fn_result.T_adapt.window_idx = 1
    /\ IsNegatedAverage(fn_result.T)

\* C25 as stated: for every finite W the temperature used after warm-up is
\* the negated dual-averaging running average of the final warm-up step.
C25_Original ==
    (fn_name = "AutoRVRS" /\ fn_result.num_updates > fn_args.num_warmup.n) =>
        /\ fn_result.T_adapt = fn_result.prev
        /\ IsNegatedAverage(fn_result.T)

(***************************************************************************)
(* Properties of the local rejection sampler.                              *)
(***************************************************************************)
AssignedTo(u) ==
    Cardinality({ k \in DOMAIN fn_result.resample_idxs : fn_result.resample_idxs[k] = u })

LocalProgress ==
    /\ \A u \in 1..fn_args.M :
          /\ fn_result.weights[u] =
                (IF fn_args.S - TrueCount(fn_result.prev.buffer[u]) > 0
                 THEN fn_args.S - TrueCount(fn_result.prev.buffer[u]) ELSE 0)
          /\ TrueCount(fn_result.buffer[u]) >= TrueCount(fn_result.prev.buffer[u])
          /\ fn_result.num_samples[u] = fn_result.prev.num_samples[u] + AssignedTo(u)
    /\ \E u \in 1..fn_args.M : TrueCount(fn_result.prev.buffer[u]) < fn_args.S

LocalLoopTest ==
    /\ fn_pc = "loop" =>
          /\ ENABLED LocalExit <=>
                \A u \in 1..fn_args.M : TrueCount(fn_result.buffer[u]) = fn_args.S
          /\ (fn_result.iters < MaxLocalIters) =>
                (ENABLED LocalBatchBody <=>
                    \E u \in 1..fn_args.M : TrueCount(fn_result.buffer[u]) < fn_args.S)
    /\ fn_pc = "returned" =>
          \A u \in 1..fn_args.M : TrueCount(fn_result.buffer[u]) = fn_args.S

\* C26 (as amended): the loop of the local rejection sampler continues
\* while some unit has fewer than S accepted samples; the proposal weight of
\* unit u is max(S - accepted_u, 0), normalised; a unit with S accepted
\* samples has weight 0 and receives no further proposal, except that the
\* first unit receives the first proposal of an iteration whose resampling
\* offset is exactly 0; a unit's accepted count never decreases, its
\* proposal counter grows by one per proposal assigned to it, and on exit
\* every unit holds S accepted samples.
C26_LocalSampler ==
    fn_name = "rs_local" =>
        /\ LocalLoopTest
        /\ fn_result.iters > 0 =>
              /\ LocalProgress
              /\ \A k \in 1..fn_args.M :
                    \/ fn_result.weights[fn_result.resample_idxs[k]] > 0
                    \/ (k = 1 /\ fn_result.resample_idxs[k] = 1 /\ fn_result.offset = 0)

C26_Witness ==
    /\ fn_name = "rs_local"
    /\ fn_pc = "returned"
    /\ fn_args.M = 2
    /\ fn_result.iters >= 2
    /\ fn_result.weights[1] = 0
    /\ fn_result.offset > 0
    /\ AssignedTo(2) = 2

\* C26 as stated: a unit with S accepted samples receives no further
\* proposal in any iteration.
C26_Original ==
    fn_name = "rs_local" =>
        /\ LocalLoopTest
        /\ fn_result.iters > 0 =>
              /\ LocalProgress
              /\ \A k \in 1..fn_args.M :
                    fn_result.weights[fn_result.resample_idxs[k]] > 0

(***************************************************************************)
(* Properties of the parameters AutoRVRS declares.                         *)
(***************************************************************************)
\* the constraint the prototype trace recorded for a parameter
RecordedConstraint(site) ==
    IF site.kwargs.given THEN site.kwargs.constraint ELSE "real"

\* C27: AutoRVRS._sample_latent leaves the cached prototype_trace and
\* prototype_guide_trace unchanged, and on every invocation declares each
\* model and guide parameter with the constraint the prototype trace
\* recorded for it.
C27_TracesUnchanged ==
    (fn_name = "AutoRVRS_params" /\ fn_result.calls > 0) =>
        /\ fn_result.prototype_trace = fn_args.model
        /\ fn_result.prototype_guide_trace = fn_args.guide
        /\ \A n \in DOMAIN fn_result.model_params :
              fn_result.model_params[n] = RecordedConstraint(fn_args.model[n])
        /\ \A n \in DOMAIN fn_result.guide_params :
              fn_result.guide_params[n] = RecordedConstraint(fn_args.guide[n])

(***************************************************************************)
(* Properties of the leave-one-out correction.                             *)
(***************************************************************************)
\* C29: every S the constructors of AutoRVRS and AutoSemiRVRS accept gives
\* a well-defined leave-one-out correction: computing S/(S-1) and 1/(S-1)
\* never divides by zero.
C29_NoDivisionByZero ==
    (fn_name = "leave_one_out" /\ fn_pc = "returned") =>
        /\ fn_result.raised # ErrZeroDivision
        /\ fn_result.raised = NoErr => fn_result.S_ratio.den # 0
        /\ (fn_result.raised = NoErr /\ fn_args.adaptation_scheme # "fixed") =>
              fn_result.a_minus.den # 0

(***************************************************************************)
(* Properties of _ravel_dict and _unravel_dict.                            *)
(***************************************************************************)
RECURSIVE SizeSum(_)
SizeSum(shape_dict) ==
    IF shape_dict = << >> THEN 0
    ELSE Prod(Head(shape_dict).value) + SizeSum(Tail(shape_dict))

RoundTripDone == fn_name = "round_trip" /\ fn_pc = "returned"

UnravelDone == fn_name = "_unravel_dict" /\ fn_pc = "returned"

FlatLengthIsSum ==
    Len(_ravel_dict(fn_args.x).x_flat.data) = SizeSum(ShapeDictOf(fn_args.x))

\* C30 (as amended): _unravel_dict(*_ravel_dict(x)) has x's keys in x's
\* order with x's shapes, and x's values converted to the common dtype of
\* the flat array, hence x itself when all values of x share a dtype; the
\* flat length is the sum of the sizes.  _unravel_dict raises AssertionError
\* when its input is not one-dimensional or the sizes of shape_dict add up
\* to less than the flat length, and the reshape's error when they add up
\* to more.
C30_RoundTrip ==
    /\ RoundTripDone =>
          /\ fn_result.raised = NoErr
          /\ FlatLengthIsSum
          /\ Len(fn_result.x) = Len(fn_args.x)
          /\ \A i \in DOMAIN fn_args.x :
                /\ fn_result.x[i].name = fn_args.x[i].name
                /\ fn_result.x[i].value.shape = fn_args.x[i].value.shape
                /\ fn_result.x[i].value.data =
                      (IF "float32" \in DtypesOf(fn_args.x) /\ fn_args.x[i].value.dtype = "int32"
                       THEN [k \in DOMAIN fn_args.x[i].value.data |->
                                RoundToFloat32(fn_args.x[i].value.data[k])]
                       ELSE fn_args.x[i].value.data)
          /\ Cardinality(DtypesOf(fn_args.x)) <= 1 =>
                \A i \in DOMAIN fn_args.x : fn_result.x[i].value.data = fn_args.x[i].value.data
    /\ UnravelDone =>
          fn_result.raised =
              (IF fn_args.x_flat.ndim # 1 THEN ErrAssertion
               ELSE IF SizeSum(fn_args.shape_dict) < Len(fn_args.x_flat.data) THEN ErrAssertion
               ELSE IF SizeSum(fn_args.shape_dict) > Len(fn_args.x_flat.data) THEN ErrReshape
               ELSE NoErr)

C30_Witness ==
    /\ RoundTripDone
    /\ Len(fn_args.x) = 2
    /\ fn_args.x[1].name = "b"
    /\ fn_args.x[1].value.shape = <<1, 2>>
    /\ DtypesOf(fn_args.x) = {"int32", "float32"}
    /\ fn_result.x[2].value.data = fn_args.x[2].value.data
    /\ fn_result.x[1].value.data # fn_args.x[1].value.data

\* C30 as stated: the round trip returns x with the same values, and
\* _unravel_dict raises AssertionError whenever the sizes do not add up to
\* the flat length or the input is not one-dimensional.
C30_Original ==
    /\ RoundTripDone =>
          /\ fn_result.raised = NoErr
          /\ FlatLengthIsSum
          /\ Len(fn_result.x) = Len(fn_args.x)
          /\ \A i \in DOMAIN fn_args.x :
                /\ fn_result.x[i].name = fn_args.x[i].name
                /\ fn_result.x[i].value.shape = fn_args.x[i].value.shape
                /\ fn_result.x[i].value.data = fn_args.x[i].value.data
    /\ UnravelDone =>
          ((fn_args.x_flat.ndim # 1
               \/ SizeSum(fn_args.shape_dict) # Len(fn_args.x_flat.data))
              => fn_result.raised = ErrAssertion)

====
